---- MODULE Spec2Model ----
(***************************************************************************)
(* Model of the crusty heapstore: the slotted Page (page.rs), the HeapFile *)
(* (heapfile.rs), the HeapFileIterator (heapfileiter.rs) and the           *)
(* StorageManager (storage_manager.rs).                                    *)
(*                                                                         *)
(* Conventions.  Option<SlotId> is an integer: NONE for None, the slot id  *)
(* otherwise.  An operation that can abort the process returns a record    *)
(* with a field "panic".  Byte arrays are functions from 0-based indices,  *)
(* values handed to the store are 1-based sequences of bytes.              *)
(***************************************************************************)
EXTENDS Integers, Sequences, FiniteSets, TLC

VARIABLES
    page,             \* the Page under test (SpecPage)
    op,               \* the last operation performed and what it returned
    steps,            \* number of operations performed so far
    overflow_checks,  \* build profile: TRUE = arithmetic overflow panics (debug)
    disk,             \* container id -> the heap file's pages, in file order
    sidecar,          \* contents of <storage_path>/c_map, or <<NONE>> when absent
    c_map,            \* StorageManager.c_map: container id -> HeapFile (pg_cnt)
    issued,           \* ghost: ValueId -> bytes handed to insert_value
    iter,             \* the HeapFileIterator and what it has yielded
    th,               \* the threads running insert_value concurrently
    inserted,         \* ghost: <<value, ValueId>> of every insert_value call, in call order
    written,          \* ghost: page id -> the bytes of the last page written under it
    opiter            \* the query operator under test (SpecJoin, SpecAgg)

vars == <<page, op, steps, overflow_checks, disk, sidecar, c_map, issued, iter, th, inserted, written, opiter>>

-----------------------------------------------------------------------------
(* Bounds of the model *)

\* common::PAGE_SIZE is 4096; the model scales the page down.
PAGE_SIZE == 180
\* operations per behaviour of the page specification
MaxOps == 3
\* longest "small" value; the other lengths are taken relative to the free space
MaxLen == 2
\* number of one-byte values the bulk load puts on a fresh page
FillCount == 23
\* state-changing storage manager calls per behaviour of the storage specification
MaxSMOps == 4
\* sequential inserts before the concurrent ones start
MaxSetup == 1
\* insert_value calls per behaviour of the insert-only specification
MaxIns == 3
\* value-level calls other than get_value per behaviour of the value specification
MaxKVOps == 3
\* calls that build the container before a scan (scan specification)
MaxScanSetup == 3
\* next() calls that yield a value, per scan of the scan specification
MaxYield == 6
\* read and write calls per behaviour of the concurrent heap file specification
MaxHCOps == 3
\* calls other than reads per behaviour of the heap file specification
MaxHFOps == 5

-----------------------------------------------------------------------------
(* Encodings *)

NONE == -1
PANIC == -2
\* stand-in for 2^64, the modulus of usize arithmetic without overflow checks
USIZE_MOD == 1073741824
U16_MAX == 65535

Min(S) == CHOOSE x \in S : \A y \in S : x <= y
Max(S) == CHOOSE x \in S : \A y \in S : x >= y

\* to_le_bytes of a u16
LeLo(v) == v % 256
LeHi(v) == v \div 256
\* u16::from_le_bytes
FromLe(lo, hi) == lo + 256 * hi

\* a usize subtraction a - b
USub(a, b, oc) ==
    IF a >= b THEN [v |-> a - b, panic |-> FALSE]
    ELSE IF oc THEN [v |-> 0, panic |-> TRUE]
    ELSE [v |-> a - b + USIZE_MOD, panic |-> FALSE]

\* the test values: len bytes ascending from seed
Val(len, seed) == [k \in 1..len |-> (seed + k - 1) % 256]

-----------------------------------------------------------------------------
(* Page *)

EmptyMap == [s \in {} |-> <<0, 0>>]

Page_new(page_id) ==
    [p_id |-> page_id, open_slot |-> 0, slot_map |-> EmptyMap, s_space |-> 0,
     data |-> [i \in 0..(PAGE_SIZE - 1) |-> 0]]

\* serde_cbor::to_vec(&Option<u16>).len()
CborLen(o) ==
    IF o = NONE THEN 1
    ELSE IF o < 24 THEN 1
    ELSE IF o < 256 THEN 2
    ELSE 3

\* mutant: p_id and s_space counted as four-byte fields
get_header_size_wide_fields(p) ==
    6 * Cardinality(DOMAIN p.slot_map) + 4 + CborLen(p.open_slot) + 4

get_header_size(p) ==
    6 * Cardinality(DOMAIN p.slot_map) + 2 + CborLen(p.open_slot) + 2

get_free_space(p, oc) ==
    LET a == USub(PAGE_SIZE, get_header_size(p), oc)
    IN  IF a.panic THEN a ELSE USub(a.v, p.s_space, oc)

\* mutant: never reuses a tombstoned slot id
find_next_slot_no_reuse(slot_map) ==
    IF DOMAIN slot_map = {} THEN 1 ELSE Max(DOMAIN slot_map) + 1

find_next_slot(slot_map) ==
    LET ids == DOMAIN slot_map
        dead == {s \in ids : slot_map[s][2] = 0}
        max == IF ids = {} THEN 0 ELSE Max(ids)
    IN  IF dead # {} THEN Min(dead)
        ELSE IF max + 1 < U16_MAX THEN max + 1
        ELSE NONE

\* mutant: inserts only when the key is absent (entry().or_insert())
MapInsertIfAbsent(m, k, v) ==
    [s \in (DOMAIN m) \cup {k} |-> IF s \in DOMAIN m THEN m[s] ELSE v]

\* m.insert(k, v) on a HashMap
MapInsert(m, k, v) == [s \in (DOMAIN m) \cup {k} |-> IF s = k THEN v ELSE m[s]]

append_slot(p, slot_id, bytes, oc) ==
    LET j == PAGE_SIZE - p.s_space
        e_idx == PAGE_SIZE - p.s_space - 1
        len == Len(bytes)
        i == USub(j, len, oc)
        i6 == USub(i.v, 6, oc)
        map2 == MapInsert(p.slot_map, slot_id, <<e_idx, len>>)
    IN  IF i.panic \/ e_idx < 0 THEN [page |-> p, ret |-> PANIC]
        ELSE IF i6.panic THEN [page |-> p, ret |-> PANIC]
        ELSE IF i6.v < get_header_size(p) THEN [page |-> p, ret |-> NONE]
        ELSE IF i.v > j THEN [page |-> p, ret |-> PANIC]
        ELSE [page |-> [p EXCEPT
                  !.data = [k \in 0..(PAGE_SIZE - 1) |->
                               IF k >= i.v /\ k < j THEN bytes[k - i.v + 1] ELSE @[k]],
                  !.slot_map = map2,
                  !.open_slot = find_next_slot(map2),
                  !.s_space = @ + len],
              ret |-> slot_id]

add_value(p, bytes, oc) ==
    IF Len(bytes) = 0 THEN [page |-> p, ret |-> NONE]
    ELSE LET fs == get_free_space(p, oc)
         IN  IF fs.panic THEN [page |-> p, ret |-> PANIC]
             ELSE IF fs.v < Len(bytes) THEN [page |-> p, ret |-> NONE]
             ELSE IF p.open_slot = NONE THEN [page |-> p, ret |-> NONE]
             ELSE append_slot(p, p.open_slot, bytes, oc)

\* ret is NONE, PANIC, or <<bytes>> wrapped as a one-element sequence
get_value(p, slot_id, oc) ==
    IF p.slot_map = EmptyMap THEN [ret |-> NONE, bytes |-> <<>>]
    ELSE IF slot_id \notin DOMAIN p.slot_map THEN [ret |-> NONE, bytes |-> <<>>]
    ELSE LET idx == p.slot_map[slot_id][1]
             len == p.slot_map[slot_id][2]
             d == USub(idx, len, oc)
             i == (d.v + 1) % USIZE_MOD
         IN  IF len = 0 THEN [ret |-> NONE, bytes |-> <<>>]
             ELSE IF d.panic \/ i > idx + 1 \/ idx + 1 > PAGE_SIZE
                  THEN [ret |-> PANIC, bytes |-> <<>>]
             ELSE [ret |-> 0, bytes |-> [k \in 1..len |-> p.data[i + k - 1]]]

\* mutant: takes the entry out of the directory
delete_value_removes_entry(p, slot_id, oc) ==
    IF slot_id \notin DOMAIN p.slot_map THEN [page |-> p, ret |-> NONE]
    ELSE [page |-> [p EXCEPT
              !.slot_map = [s \in (DOMAIN p.slot_map) \ {slot_id} |-> p.slot_map[s]],
              !.open_slot = find_next_slot([s \in (DOMAIN p.slot_map) \ {slot_id} |->
                                               p.slot_map[s]]),
              !.s_space = @ - p.slot_map[slot_id][2]],
          ret |-> 0]

\* mutant: tombstones the entry and leaves the body where it is
delete_value_no_compaction(p, slot_id, oc) ==
    IF slot_id \notin DOMAIN p.slot_map THEN [page |-> p, ret |-> NONE]
    ELSE [page |-> [p EXCEPT
              !.slot_map = [@ EXCEPT ![slot_id] = <<0, 0>>],
              !.open_slot = find_next_slot([p.slot_map EXCEPT ![slot_id] = <<0, 0>>]),
              !.s_space = @ - p.slot_map[slot_id][2]],
          ret |-> 0]

delete_value(p, slot_id, oc) ==
    IF slot_id \notin DOMAIN p.slot_map THEN [page |-> p, ret |-> NONE]
    ELSE LET t == p.slot_map[slot_id]
             data_start == get_header_size(p)
             len == t[2]
             data_end == t[1] - t[2] + 1
             moved == [k \in 0..(PAGE_SIZE - 1) |->
                          IF k >= data_start + len /\ k < data_end + len
                          THEN p.data[k - len] ELSE p.data[k]]
             zeroed == [k \in 0..(PAGE_SIZE - 1) |->
                          IF k >= data_start /\ k < data_start + len THEN 0 ELSE moved[k]]
             shifted == [s \in DOMAIN p.slot_map |->
                          IF p.slot_map[s][1] < data_end
                          THEN <<p.slot_map[s][1] + len, p.slot_map[s][2]>>
                          ELSE p.slot_map[s]]
             map2 == [shifted EXCEPT ![slot_id] = <<0, 0>>]
         IN  IF t[1] < t[2] THEN [page |-> p, ret |-> PANIC]
             ELSE IF data_start > data_end \/ data_end + len > PAGE_SIZE
                  THEN [page |-> p, ret |-> PANIC]
             ELSE [page |-> [p EXCEPT
                       !.data = zeroed,
                       !.slot_map = map2,
                       !.open_slot = find_next_slot(map2),
                       !.s_space = @ - len],
                   ret |-> 0]

\* the keys of the slot map in ascending order (keys.sort())
RECURSIVE SortedKeys(_)
SortedKeys(S) ==
    IF S = {} THEN <<>> ELSE <<Min(S)>> \o SortedKeys(S \ {Min(S)})

\* the byte to_bytes puts at offset k of the header region, k < 7 + 6 * N
HeaderByte(p, keys, k) ==
    IF k = 0 THEN LeLo(p.p_id)
    ELSE IF k = 1 THEN LeHi(p.p_id)
    ELSE IF k = 2 THEN (IF p.open_slot = NONE THEN 0 ELSE 1)
    ELSE IF k = 3 THEN LeLo(p.open_slot)
    ELSE IF k = 4 THEN LeHi(p.open_slot)
    ELSE IF k = 5 THEN LeLo(Len(keys))
    ELSE IF k = 6 THEN LeHi(Len(keys))
    ELSE LET key == keys[((k - 7) \div 6) + 1]
             f == (k - 7) % 6
             w == IF f < 2 THEN key
                  ELSE IF f < 4 THEN p.slot_map[key][1]
                  ELSE p.slot_map[key][2]
         IN  IF f % 2 = 0 THEN LeLo(w) ELSE LeHi(w)

\* panic: open_slot.unwrap() on None, or a header longer than the page
to_bytes(p) ==
    LET keys == SortedKeys(DOMAIN p.slot_map)
        hdr == 7 + 6 * Len(keys)
    IN  IF p.open_slot = NONE \/ hdr > PAGE_SIZE
        THEN [panic |-> TRUE, bytes |-> p.data]
        ELSE [panic |-> FALSE,
              bytes |-> [k \in 0..(PAGE_SIZE - 1) |->
                            IF k < hdr THEN HeaderByte(p, keys, k) ELSE p.data[k]]]

from_bytes(data) ==
    LET p_id == FromLe(data[0], data[1])
        none == data[2]
        open_slot == FromLe(data[3], data[4])
        num_slots == FromLe(data[5], data[6])
        KeyAt(n) == FromLe(data[7 + 6 * n], data[8 + 6 * n])
        keys == {KeyAt(n) : n \in 0..(num_slots - 1)}
        \* later entries overwrite earlier ones with the same key
        Last(key) == Max({n \in 0..(num_slots - 1) : KeyAt(n) = key})
        slot_map == [key \in keys |->
                        <<FromLe(data[9 + 6 * Last(key)], data[10 + 6 * Last(key)]),
                          FromLe(data[11 + 6 * Last(key)], data[12 + 6 * Last(key)])>>]
        RECURSIVE Sum(_)
        Sum(S) == IF S = {} THEN 0
                  ELSE LET x == CHOOSE x \in S : TRUE
                       IN  slot_map[x][2] + Sum(S \ {x})
    IN  [p_id |-> p_id,
         open_slot |-> IF none = 1 THEN open_slot ELSE NONE,
         slot_map |-> slot_map,
         s_space |-> Sum(keys) % (U16_MAX + 1),
         data |-> data]

\* PageIntoIter: the (bytes, slot id) pairs from next_slot on
RECURSIVE PageIterFrom(_, _, _, _)
PageIterFrom(p, next_slot, max_slot, oc) ==
    IF next_slot > max_slot THEN <<>>
    ELSE IF next_slot \notin DOMAIN p.slot_map
         THEN PageIterFrom(p, next_slot + 1, max_slot, oc)
    ELSE IF p.slot_map[next_slot][2] = 0
         THEN PageIterFrom(p, next_slot + 1, max_slot, oc)
    ELSE <<<<get_value(p, next_slot, oc).bytes, next_slot>>>>
             \o PageIterFrom(p, next_slot + 1, max_slot, oc)

\* mutant: max_slot stops one short of the last slot id in use
into_iter_skip_last(p, oc) == PageIterFrom(p, 0, Cardinality(DOMAIN p.slot_map) - 2, oc)

into_iter(p, oc) == PageIterFrom(p, 0, Cardinality(DOMAIN p.slot_map), oc)

-----------------------------------------------------------------------------
(* HeapFile: the file is disk[container_id], a sequence of page images;    *)
(* the handle hf carries the cached page count pg_cnt.                     *)

ERR == -3

\* HeapFile::new: the page count is the file length over the page size
HeapFile_new(file, container_id) ==
    [container_id |-> container_id, pg_cnt |-> Len(file)]

\* the positions among the first pg_cnt pages whose header carries page id pid
\* (read_exact fails at the first position past the end of the file)
Matches(hf, file, pid) ==
    {i \in 1..hf.pg_cnt : i <= Len(file) /\ from_bytes(file[i]).p_id = pid}

\* mutant: takes the page at position pid of the file
read_page_at_position(hf, file, pid) ==
    IF pid + 1 > Min({hf.pg_cnt, Len(file)}) THEN [ok |-> FALSE, page |-> Page_new(0)]
    ELSE [ok |-> TRUE, page |-> from_bytes(file[pid + 1])]

read_page_from_file(hf, file, pid) ==
    LET hits == Matches(hf, file, pid)
    IN  IF hits = {} THEN [ok |-> FALSE, page |-> Page_new(0)]
        ELSE [ok |-> TRUE, page |-> from_bytes(file[Min(hits)])]

\* mutant: never looks for the page in the file, always appends
write_page_append_only(hf, file, p) ==
    LET b == to_bytes(p)
    IN  IF b.panic THEN [hf |-> hf, file |-> file, ret |-> PANIC]
        ELSE [hf |-> [hf EXCEPT !.pg_cnt = @ + 1], file |-> Append(file, b.bytes), ret |-> 0]

write_page_to_file(hf, file, p) ==
    LET hits == Matches(hf, file, p.p_id)
        b == to_bytes(p)
    IN  IF hits # {}
        THEN IF b.panic THEN [hf |-> hf, file |-> file, ret |-> PANIC]
             ELSE [hf |-> hf, file |-> [file EXCEPT ![Min(hits)] = b.bytes], ret |-> 0]
        ELSE IF hf.pg_cnt > Len(file) THEN [hf |-> hf, file |-> file, ret |-> ERR]
        ELSE IF b.panic THEN [hf |-> hf, file |-> file, ret |-> PANIC]
        ELSE [hf |-> [hf EXCEPT !.pg_cnt = @ + 1], file |-> Append(file, b.bytes), ret |-> 0]

-----------------------------------------------------------------------------
(* StorageManager.  dk is the disk (container id -> file), cm the c_map.   *)
(* A ValueId is <<container_id, page_id, slot_id>>.                        *)

PanicId == <<PANIC, PANIC, PANIC>>

MapRemove(m, k) == [x \in (DOMAIN m) \ {k} |-> m[x]]

sm_get_page(dk, cm, container_id, page_id) ==
    IF container_id \notin DOMAIN cm THEN [ok |-> FALSE, page |-> Page_new(0)]
    ELSE read_page_from_file(cm[container_id], dk[container_id], page_id)

\* ret: 0 for Ok, ERR for Err, PANIC when to_bytes aborts
sm_write_page(dk, cm, container_id, p) ==
    IF container_id \notin DOMAIN cm THEN [disk |-> dk, c_map |-> cm, ret |-> ERR]
    ELSE LET w == write_page_to_file(cm[container_id], dk[container_id], p)
         IN  [disk |-> [dk EXCEPT ![container_id] = w.file],
              c_map |-> [cm EXCEPT ![container_id] = w.hf],
              ret |-> w.ret]

\* write_page(..).unwrap() followed by returning the ValueId id
WriteAndReturn(dk, cm, container_id, p, id) ==
    LET w == sm_write_page(dk, cm, container_id, p)
    IN  IF w.ret # 0 THEN [disk |-> dk, c_map |-> cm, ret |-> PanicId]
        ELSE [disk |-> w.disk, c_map |-> w.c_map, ret |-> id]

\* the loop of insert_value, from page p_id on
RECURSIVE InsertLoop(_, _, _, _, _, _)
InsertLoop(dk, cm, container_id, value, p_id, oc) ==
    LET g == sm_get_page(dk, cm, container_id, p_id)
        a == add_value(g.page, value, oc)
        n == add_value(Page_new(p_id + 1), value, oc)
    IN  IF ~g.ok \/ a.ret = PANIC THEN [disk |-> dk, c_map |-> cm, ret |-> PanicId]
        ELSE IF a.ret # NONE
             THEN WriteAndReturn(dk, cm, container_id, a.page, <<container_id, p_id, a.ret>>)
        ELSE IF p_id + 1 >= cm[container_id].pg_cnt
             THEN IF n.ret < 0 THEN [disk |-> dk, c_map |-> cm, ret |-> PanicId]
                  ELSE WriteAndReturn(dk, cm, container_id, n.page,
                                      <<container_id, p_id + 1, n.ret>>)
        ELSE InsertLoop(dk, cm, container_id, value, p_id + 1, oc)

\* mutant: never tries the existing pages, always allocates the next page id
sm_insert_value_always_new(dk, cm, container_id, value, oc) ==
    IF Len(value) > PAGE_SIZE \/ container_id \notin DOMAIN cm
    THEN [disk |-> dk, c_map |-> cm, ret |-> PanicId]
    ELSE LET a == add_value(Page_new(cm[container_id].pg_cnt), value, oc)
         IN  IF a.ret < 0 THEN [disk |-> dk, c_map |-> cm, ret |-> PanicId]
             ELSE WriteAndReturn(dk, cm, container_id, a.page,
                                 <<container_id, cm[container_id].pg_cnt, a.ret>>)

sm_insert_value(dk, cm, container_id, value, oc) ==
    IF Len(value) > PAGE_SIZE \/ container_id \notin DOMAIN cm
    THEN [disk |-> dk, c_map |-> cm, ret |-> PanicId]
    ELSE IF cm[container_id].pg_cnt = 0
    THEN LET a == add_value(Page_new(0), value, oc)
         IN  IF a.ret = PANIC THEN [disk |-> dk, c_map |-> cm, ret |-> PanicId]
             ELSE WriteAndReturn(dk, cm, container_id, a.page, <<container_id, 0, 0>>)
    ELSE InsertLoop(dk, cm, container_id, value, 0, oc)

\* ret: 0 for Ok(()), PANIC
sm_delete_value(dk, cm, id, oc) ==
    LET g == sm_get_page(dk, cm, id[1], id[2])
        d == delete_value(g.page, id[3], oc)
        w == sm_write_page(dk, cm, id[1], d.page)
    IN  IF ~g.ok \/ d.ret = PANIC \/ w.ret # 0
        THEN [disk |-> dk, c_map |-> cm, ret |-> PANIC]
        ELSE [disk |-> w.disk, c_map |-> w.c_map, ret |-> 0]

\* ret: 0 for Ok(bytes), ERR for Err, PANIC
sm_get_value(dk, cm, id, oc) ==
    LET g == sm_get_page(dk, cm, id[1], id[2])
        v == get_value(g.page, id[3], oc)
    IN  IF ~g.ok \/ v.ret = PANIC THEN [ret |-> PANIC, bytes |-> <<>>]
        ELSE IF v.ret = NONE THEN [ret |-> ERR, bytes |-> <<>>]
        ELSE v

\* HeapFile::new creates the container's file when it is absent
Touch(dk, container_id) ==
    IF container_id \in DOMAIN dk THEN dk ELSE MapInsert(dk, container_id, <<>>)

create_container(dk, cm, container_id) ==
    LET dk2 == Touch(dk, container_id)
    IN  [disk |-> dk2,
         c_map |-> MapInsert(cm, container_id, HeapFile_new(dk2[container_id], container_id))]

\* the sequences that list every element of S once (HashMap iteration orders)
RECURSIVE Orders(_)
Orders(S) ==
    IF S = {} THEN {<<>>}
    ELSE UNION {{<<x>> \o o : o \in Orders(S \ {x})} : x \in S}

\* the Vec<u16> that shutdown serializes, for the iteration order ids
shutdown(cm, ids) == <<Len(ids)>> \o ids

\* StorageManager::new on a storage path holding dk and the sidecar buffer
RECURSIVE OpenAll(_, _, _, _)
OpenAll(dk, cm, buffer, idx) ==
    IF idx > buffer[1] THEN [disk |-> dk, c_map |-> cm]
    ELSE LET r == create_container(dk, cm, buffer[idx + 1])
         IN  OpenAll(r.disk, r.c_map, buffer, idx + 1)

EmptyFcn == [x \in {} |-> <<>>]

StorageManager_new(dk, buffer) ==
    IF buffer = <<NONE>> THEN [disk |-> dk, c_map |-> EmptyFcn]
    ELSE IF buffer[1] = 0 THEN [disk |-> dk, c_map |-> EmptyFcn]
    ELSE OpenAll(dk, EmptyFcn, buffer, 1)

-----------------------------------------------------------------------------
(* HeapFileIterator *)

\* out, done, dirty and stable are ghost fields: the items yielded so far,
\* whether None was returned, whether the container was changed since, and the
\* ValueIds readable at get_iterator and not deleted since
HeapFileIterator_new(container_id) ==
    [active |-> TRUE, cid |-> container_id, curr_pid |-> 0, curr_record_idx |-> 0,
     out |-> <<>>, done |-> FALSE, dirty |-> FALSE, stable |-> {}]

\* No query operator has been constructed (storage-level specifications).
NoOperator == [kind |-> "none"]

NoIter ==
    [active |-> FALSE, cid |-> NONE, curr_pid |-> 0, curr_record_idx |-> 0,
     out |-> <<>>, done |-> FALSE, dirty |-> FALSE, stable |-> {}]

\* mutant: yields a record without moving curr_record_idx past it
RECURSIVE hfi_next_same_record(_, _, _, _, _)
hfi_next_same_record(dk, hf, curr_pid, curr_record_idx, oc) ==
    IF curr_pid < hf.pg_cnt
    THEN LET r == read_page_from_file(hf, dk[hf.container_id], curr_pid)
             items == into_iter(r.page, oc)
         IN  IF ~r.ok
             THEN [panic |-> TRUE, item |-> <<>>, curr_pid |-> curr_pid,
                   curr_record_idx |-> curr_record_idx]
             ELSE IF curr_record_idx < Len(items)
             THEN [panic |-> FALSE,
                   item |-> <<items[curr_record_idx + 1][1],
                              <<hf.container_id, curr_pid, items[curr_record_idx + 1][2]>>>>,
                   curr_pid |-> curr_pid, curr_record_idx |-> curr_record_idx]
             ELSE hfi_next_same_record(dk, hf, curr_pid + 1, 0, oc)
    ELSE [panic |-> FALSE, item |-> <<>>, curr_pid |-> curr_pid,
          curr_record_idx |-> curr_record_idx]

\* mutant: keeps curr_record_idx when it moves on to the next page
RECURSIVE hfi_next_keep_idx(_, _, _, _, _)
hfi_next_keep_idx(dk, hf, curr_pid, curr_record_idx, oc) ==
    IF curr_pid < hf.pg_cnt
    THEN LET r == read_page_from_file(hf, dk[hf.container_id], curr_pid)
             items == into_iter(r.page, oc)
         IN  IF ~r.ok
             THEN [panic |-> TRUE, item |-> <<>>, curr_pid |-> curr_pid,
                   curr_record_idx |-> curr_record_idx]
             ELSE IF curr_record_idx < Len(items)
             THEN [panic |-> FALSE,
                   item |-> <<items[curr_record_idx + 1][1],
                              <<hf.container_id, curr_pid, items[curr_record_idx + 1][2]>>>>,
                   curr_pid |-> curr_pid, curr_record_idx |-> curr_record_idx + 1]
             ELSE hfi_next_keep_idx(dk, hf, curr_pid + 1, curr_record_idx, oc)
    ELSE [panic |-> FALSE, item |-> <<>>, curr_pid |-> curr_pid,
          curr_record_idx |-> curr_record_idx]

\* one call of next(): item is <<bytes, ValueId>>, or <<>> for None
RECURSIVE hfi_next(_, _, _, _, _)
hfi_next(dk, hf, curr_pid, curr_record_idx, oc) ==
    IF curr_pid < hf.pg_cnt
    THEN LET r == read_page_from_file(hf, dk[hf.container_id], curr_pid)
             items == into_iter(r.page, oc)
         IN  IF ~r.ok
             THEN [panic |-> TRUE, item |-> <<>>, curr_pid |-> curr_pid,
                   curr_record_idx |-> curr_record_idx]
             ELSE IF curr_record_idx < Len(items)
             THEN [panic |-> FALSE,
                   item |-> <<items[curr_record_idx + 1][1],
                              <<hf.container_id, curr_pid, items[curr_record_idx + 1][2]>>>>,
                   curr_pid |-> curr_pid, curr_record_idx |-> curr_record_idx + 1]
             ELSE hfi_next(dk, hf, curr_pid + 1, 0, oc)
    ELSE [panic |-> FALSE, item |-> <<>>, curr_pid |-> curr_pid,
          curr_record_idx |-> curr_record_idx]

-----------------------------------------------------------------------------
(* The page specification: one Page driven by add_value, delete_value,     *)
(* a bulk load and serialize/deserialize cycles.                           *)

Seeds == {17, 200}

\* the free space as a plain integer (negative when the header has outgrown it)
FreeInt(p) == PAGE_SIZE - get_header_size(p) - p.s_space

\* lengths offered to add_value: empty, small, and around the capacity limit
AddLens(p) ==
    ({0} \cup (1..MaxLen) \cup {FreeInt(p) - 6, FreeInt(p) - 5, FreeInt(p)})
        \cap (0..PAGE_SIZE)

\* slot ids offered to delete_value and get_value
SlotArgs(p) == {0, 1, 2} \cup {s \in DOMAIN p.slot_map : s + 2 >= Cardinality(DOMAIN p.slot_map)}
                 \cup {Cardinality(DOMAIN p.slot_map)}

NoOp == [name |-> "init", slot |-> NONE, bytes |-> <<>>, ret |-> NONE]

Threads == {1, 2}

IdleThread == [pc |-> "idle", value |-> <<>>, p_id |-> 0, pg |-> Page_new(0), ret |-> PanicId]

NoThreads == [t \in Threads |-> IdleThread]

\* the bulk load loop is still running
Filling == op.name = "fill" /\ op.slot < FillCount

Running == op.ret # PANIC /\ steps < MaxOps /\ ~Filling

SMIdle ==
    UNCHANGED <<disk, sidecar, c_map, issued, iter, th, inserted, written, opiter>>

PAddValue ==
    /\ Running
    /\ \E len \in AddLens(page), seed \in Seeds :
          LET bytes == Val(len, seed)
              r == add_value(page, bytes, overflow_checks)
          IN  /\ page' = r.page
              /\ op' = [name |-> "add", slot |-> r.ret, bytes |-> bytes, ret |-> r.ret]
    /\ steps' = steps + 1
    /\ UNCHANGED overflow_checks
    /\ SMIdle

PDeleteValue ==
    /\ Running
    /\ \E s \in SlotArgs(page) :
          LET r == delete_value(page, s, overflow_checks)
          IN  /\ page' = r.page
              /\ op' = [name |-> "delete", slot |-> s, bytes |-> <<>>, ret |-> r.ret]
    /\ steps' = steps + 1
    /\ UNCHANGED overflow_checks
    /\ SMIdle

\* p = Page::from_bytes(&p.to_bytes())
PSerDe ==
    /\ Running
    /\ LET b == to_bytes(page)
       IN  /\ page' = IF b.panic THEN page ELSE from_bytes(b.bytes)
           /\ op' = [name |-> "serde", slot |-> NONE, bytes |-> <<>>,
                     ret |-> IF b.panic THEN PANIC ELSE 0]
    /\ steps' = steps + 1
    /\ UNCHANGED overflow_checks
    /\ SMIdle

\* for _ in 0..n { p.add_value(&bytes); } on a fresh page, with one-byte values:
\* one iteration of the loop; op.slot counts the iterations done
PFill ==
    /\ op.ret # PANIC
    /\ \/ op.name = "init" /\ steps = 0
       \/ Filling
    /\ \E seed \in Seeds :
          LET bytes == Val(1, seed)
              r == add_value(page, bytes, overflow_checks)
          IN  /\ op.name = "fill" => op.bytes = bytes
              /\ page' = r.page
              /\ op' = [name |-> "fill", slot |-> IF op.name = "fill" THEN op.slot + 1 ELSE 1,
                        bytes |-> bytes, ret |-> r.ret]
    /\ UNCHANGED <<steps, overflow_checks>>
    /\ SMIdle

PageInit ==
    /\ opiter = NoOperator
    /\ written = EmptyFcn
    /\ inserted = <<>>
    /\ page = Page_new(0)
    /\ op = NoOp
    /\ steps = 0
    /\ overflow_checks \in BOOLEAN
    /\ disk = EmptyFcn
    /\ sidecar = <<NONE>>
    /\ c_map = EmptyFcn
    /\ issued = EmptyFcn
    /\ iter = NoIter
    /\ th = NoThreads

PageNext == PAddValue \/ PDeleteValue \/ PSerDe \/ PFill

SpecPage == PageInit /\ [][PageNext]_vars

-----------------------------------------------------------------------------
(* The storage specification: one StorageManager on one storage path,     *)
(* called from a single thread, with restarts of the process.  The storage *)
(* directory exists.                                                       *)

Containers == {1, 2}

\* values handed to insert_value: one byte, half a page, the longest value a
\* fresh page accepts, and a whole page
SMValues ==
    {Val(1, 17), Val(PAGE_SIZE \div 2, 200), Val(PAGE_SIZE - 11, 17), Val(PAGE_SIZE, 200)}

\* the ValueIds handed to delete_value: slots, live or not, of pages that exist
ProbeIds ==
    {id \in {<<c, p, s>> : c \in Containers, p \in {0, 1}, s \in {0, 1}} :
        id[1] \in DOMAIN c_map /\ id[2] < c_map[id[1]].pg_cnt}

SMOp(name, id, bytes, ret) == [name |-> name, slot |-> id, bytes |-> bytes, ret |-> ret]

\* insert_value is called on containers that exist
InsertTargets == Containers \cap DOMAIN c_map

SMRunning == op.ret # PANIC /\ steps < MaxSMOps

\* a call that changes container c after an iterator over it was handed out
Disturb(c) ==
    IF iter.active /\ iter.cid = c THEN [iter EXCEPT !.dirty = TRUE] ELSE iter

PageIdle == UNCHANGED <<page, overflow_checks, th, inserted, written, opiter>>

SMCreateContainer ==
    /\ SMRunning
    /\ \E c \in Containers :
          LET r == create_container(disk, c_map, c)
          IN  /\ disk' = r.disk
              /\ c_map' = r.c_map
              /\ op' = SMOp("create", <<c, NONE, NONE>>, <<>>, 0)
              /\ iter' = Disturb(c)
    /\ steps' = steps + 1
    /\ UNCHANGED <<sidecar, issued>>
    /\ PageIdle

SMInsertValue ==
    /\ SMRunning
    /\ \E c \in InsertTargets, value \in SMValues :
          LET r == sm_insert_value(disk, c_map, c, value, overflow_checks)
          IN  /\ disk' = r.disk
              /\ c_map' = r.c_map
              /\ op' = SMOp("insert", r.ret, value, IF r.ret = PanicId THEN PANIC ELSE 0)
              /\ issued' = IF r.ret = PanicId THEN issued ELSE MapInsert(issued, r.ret, value)
              /\ iter' = Disturb(c)
    /\ steps' = steps + 1
    /\ UNCHANGED sidecar
    /\ PageIdle

SMDeleteValue ==
    /\ SMRunning
    /\ \E id \in ProbeIds :
          LET r == sm_delete_value(disk, c_map, id, overflow_checks)
          IN  /\ disk' = r.disk
              /\ c_map' = r.c_map
              /\ op' = SMOp("delete", id, <<>>, r.ret)
              /\ issued' = IF r.ret = 0 THEN MapRemove(issued, id) ELSE issued
              /\ iter' = [Disturb(id[1]) EXCEPT !.stable = @ \ {id}]
    /\ steps' = steps + 1
    /\ UNCHANGED sidecar
    /\ PageIdle

SMShutdown ==
    /\ SMRunning
    /\ \E ids \in Orders(DOMAIN c_map) : sidecar' = shutdown(c_map, ids)
    /\ op' = SMOp("shutdown", <<NONE, NONE, NONE>>, <<>>, 0)
    /\ steps' = steps + 1
    /\ UNCHANGED <<disk, c_map, issued, iter>>
    /\ PageIdle

\* the process ends and StorageManager::new runs on the same storage path
SMRestart ==
    /\ SMRunning
    /\ LET r == StorageManager_new(disk, sidecar)
       IN  /\ disk' = r.disk
           /\ c_map' = r.c_map
    /\ op' = SMOp("restart", <<NONE, NONE, NONE>>, <<>>, 0)
    /\ iter' = NoIter
    /\ steps' = steps + 1
    /\ UNCHANGED <<sidecar, issued>>
    /\ PageIdle

SMGetIterator ==
    /\ op.ret # PANIC
    /\ ~iter.active
    /\ \E c \in Containers :
          IF c \in DOMAIN c_map
          THEN /\ iter' = [HeapFileIterator_new(c) EXCEPT
                             !.stable = {id \in DOMAIN issued :
                                            /\ id[1] = c
                                            /\ sm_get_value(disk, c_map, id,
                                                            overflow_checks).ret = 0}]
               /\ op' = SMOp("get_iterator", <<c, NONE, NONE>>, <<>>, 0)
          ELSE /\ iter' = iter
               /\ op' = SMOp("get_iterator", <<c, NONE, NONE>>, <<>>, PANIC)
    /\ UNCHANGED <<steps, disk, sidecar, c_map, issued>>
    /\ PageIdle

\* one call of next() on the open iterator
SMIterNext ==
    /\ op.ret # PANIC
    /\ iter.active
    /\ Len(iter.out) <= 2 * PAGE_SIZE
    /\ ~iter.done
    /\ LET r == hfi_next(disk, c_map[iter.cid], iter.curr_pid, iter.curr_record_idx,
                         overflow_checks)
       IN  /\ iter' = [iter EXCEPT !.curr_pid = r.curr_pid,
                                   !.curr_record_idx = r.curr_record_idx,
                                   !.out = IF r.item = <<>> THEN @ ELSE Append(@, r.item),
                                   !.done = ~r.panic /\ r.item = <<>>]
           /\ op' = SMOp("next", IF r.item = <<>> THEN <<NONE, NONE, NONE>> ELSE r.item[2],
                         IF r.item = <<>> THEN <<>> ELSE r.item[1],
                         IF r.panic THEN PANIC ELSE 0)
    /\ UNCHANGED <<steps, disk, sidecar, c_map, issued>>
    /\ PageIdle

SMInit ==
    /\ opiter = NoOperator
    /\ written = EmptyFcn
    /\ inserted = <<>>
    /\ page = Page_new(0)
    /\ op = NoOp
    /\ steps = 0
    /\ overflow_checks \in BOOLEAN
    /\ disk = EmptyFcn
    /\ sidecar = <<NONE>>
    /\ c_map = EmptyFcn
    /\ issued = EmptyFcn
    /\ iter = NoIter
    /\ th = NoThreads

SMNext ==
    \/ SMCreateContainer
    \/ SMInsertValue
    \/ SMDeleteValue
    \/ SMShutdown
    \/ SMRestart
    \/ SMGetIterator
    \/ SMIterNext

SpecSM == SMInit /\ [][SMNext]_vars

-----------------------------------------------------------------------------
(* Properties of the page                                                  *)

\* the slot ids a caller can probe on page p
ProbeSlots(p) == 0..(Cardinality(DOMAIN p.slot_map) + 1)

\* the observable surface of a page
Observables(p, oc) ==
    [values |-> [s \in ProbeSlots(p) |-> get_value(p, s, oc)],
     iteration |-> into_iter(p, oc),
     free_space |-> get_free_space(p, oc),
     header_size |-> get_header_size(p)]

IsAdd(o) == o.name \in {"add", "fill"}

LiveSlots(p) == {s \in DOMAIN p.slot_map : p.slot_map[s][2] > 0}
Tombstones(p) == {s \in DOMAIN p.slot_map : p.slot_map[s][2] = 0}

\* C1: from_bytes(to_bytes(p)) has the same get_value results, iteration
\* sequence, free space and header size as p, for every reachable page p.
C1_RoundTripPreservesObservables ==
    op.ret # PANIC =>
        /\ ~to_bytes(page).panic
        /\ Observables(from_bytes(to_bytes(page).bytes), overflow_checks)
              = Observables(page, overflow_checks)

\* C2: when add_value(bytes) returns Some(s), get_value(s) is exactly bytes and
\* get_value of every other slot id is what it was before the call.
C2_AddThenGet ==
    [][(IsAdd(op') /\ op'.ret >= 0) =>
          /\ get_value(page', op'.ret, overflow_checks) = [ret |-> 0, bytes |-> op'.bytes]
          /\ \A s \in ProbeSlots(page') \ {op'.ret} :
                get_value(page', s, overflow_checks) = get_value(page, s, overflow_checks)
      ]_vars

\* C2 witness: an insert into slot 1 has returned while slot 0 holds a value
C2_Witness ==
    /\ op.name = "add" /\ op.ret = 1
    /\ get_value(page, 0, overflow_checks).ret = 0
    /\ get_value(page, 1, overflow_checks).bytes = op.bytes

\* C3: after delete_value(s) of a live slot returns Some(()), get_value(s) is
\* None, every other slot reads as before, and the free space has grown by at
\* least the length of the deleted value.
C3_DeleteFrees ==
    [][(op'.name = "delete" /\ op'.ret = 0 /\ op'.slot \in LiveSlots(page)) =>
          /\ get_value(page', op'.slot, overflow_checks).ret = NONE
          /\ \A s \in ProbeSlots(page) \ {op'.slot} :
                get_value(page', s, overflow_checks) = get_value(page, s, overflow_checks)
          /\ ~get_free_space(page, overflow_checks).panic
          /\ ~get_free_space(page', overflow_checks).panic
          /\ get_free_space(page', overflow_checks).v
                >= get_free_space(page, overflow_checks).v + page.slot_map[op'.slot][2]
      ]_vars

\* the slot id the contract assigns to the next insert on page p
ContractSlot(p) ==
    IF Tombstones(p) # {} THEN Min(Tombstones(p))
    ELSE IF LiveSlots(p) = {} THEN 0
    ELSE Max(LiveSlots(p)) + 1

\* C4: a successful add_value returns the minimum tombstoned slot id if one
\* exists, otherwise the maximum live slot id plus one, and 0 on a fresh page.
C4_SlotAssignment ==
    [][(IsAdd(op') /\ op'.ret >= 0) => op'.ret = ContractSlot(page)]_vars

\* C4 witness: an insert has reused tombstoned slot 0 below live slots
C4_Witness ==
    /\ op.name = "add" /\ op.ret = 0
    /\ 1 \in LiveSlots(page) /\ 0 \in LiveSlots(page)

\* C5: add_value(bytes) succeeds if and only if bytes is not empty and is no
\* longer than get_free_space() measured just before the call.
C5_AddIffFits ==
    [][IsAdd(op') =>
          /\ ~get_free_space(page, overflow_checks).panic
          /\ (op'.ret >= 0) <=>
                (/\ Len(op'.bytes) > 0
                 /\ Len(op'.bytes) <= get_free_space(page, overflow_checks).v)
      ]_vars

-----------------------------------------------------------------------------
(* The concurrent specification: two threads call insert_value on          *)
(* container 1. Each step of a thread is one critical section of the code: *)
(* get_num_pages (c_map read lock), get_page (c_map read lock and the file *)
(* lock), the num_pages() re-check, write_page (c_map write lock). The     *)
(* page a thread works on between two sections is its own copy.            *)

ConcContainer == 1

ConcValues == {Val(1, 17), Val(PAGE_SIZE \div 2, 200)}

ThreadsIdle == \A t \in Threads : th[t].pc = "idle"

ConcIdle == UNCHANGED <<page, overflow_checks, sidecar, issued, iter, inserted, written, opiter>>

TOp(t, name) == SMOp(name, <<ConcContainer, NONE, t>>, <<>>, 0)

\* an insert_value call that runs alone, before the threads start
CSeqInsert ==
    /\ ThreadsIdle
    /\ steps < MaxSetup
    /\ \E value \in ConcValues :
          LET r == sm_insert_value(disk, c_map, ConcContainer, value, overflow_checks)
          IN  /\ r.ret # PanicId
              /\ disk' = r.disk
              /\ c_map' = r.c_map
              /\ op' = SMOp("insert", r.ret, value, 0)
    /\ steps' = steps + 1
    /\ UNCHANGED th
    /\ ConcIdle

\* thread t enters insert_value(ConcContainer, value, tid)
TStart(t) ==
    /\ th[t].pc = "idle"
    /\ \E value \in ConcValues :
          th' = [th EXCEPT ![t] = [IdleThread EXCEPT !.pc = "num_pages", !.value = value]]
    /\ op' = TOp(t, "start")
    /\ UNCHANGED <<steps, disk, c_map>>
    /\ ConcIdle

\* if self.get_num_pages(container_id) == 0 { new_page.add_value(&value) ...
TNumPages(t) ==
    /\ th[t].pc = "num_pages"
    /\ LET a == add_value(Page_new(0), th[t].value, overflow_checks)
       IN  th' = IF c_map[ConcContainer].pg_cnt = 0
                 THEN [th EXCEPT ![t].pc = IF a.ret = PANIC THEN "panic" ELSE "write_page",
                                 ![t].pg = a.page,
                                 ![t].ret = <<ConcContainer, 0, 0>>]
                 ELSE [th EXCEPT ![t].pc = "get_page", ![t].p_id = 0]
    /\ op' = TOp(t, "num_pages")
    /\ UNCHANGED <<steps, disk, c_map>>
    /\ ConcIdle

\* let mut pg = self.get_page(..).unwrap(); match pg.add_value(&value) ...
TGetPage(t) ==
    /\ th[t].pc = "get_page"
    /\ LET g == sm_get_page(disk, c_map, ConcContainer, th[t].p_id)
           a == add_value(g.page, th[t].value, overflow_checks)
       IN  th' = IF ~g.ok \/ a.ret = PANIC THEN [th EXCEPT ![t].pc = "panic"]
                 ELSE IF a.ret # NONE
                 THEN [th EXCEPT ![t].pc = "write_page", ![t].pg = a.page,
                                 ![t].ret = <<ConcContainer, th[t].p_id, a.ret>>]
                 ELSE [th EXCEPT ![t].pc = "check_end", ![t].p_id = @ + 1]
    /\ op' = TOp(t, "get_page")
    /\ UNCHANGED <<steps, disk, c_map>>
    /\ ConcIdle

\* if p_id >= self.c_map.read().unwrap()[&container_id].num_pages() { ...
TCheckEnd(t) ==
    /\ th[t].pc = "check_end"
    /\ LET n == add_value(Page_new(th[t].p_id), th[t].value, overflow_checks)
       IN  th' = IF th[t].p_id >= c_map[ConcContainer].pg_cnt
                 THEN IF n.ret < 0 THEN [th EXCEPT ![t].pc = "panic"]
                      ELSE [th EXCEPT ![t].pc = "write_page", ![t].pg = n.page,
                                      ![t].ret = <<ConcContainer, th[t].p_id, n.ret>>]
                 ELSE [th EXCEPT ![t].pc = "get_page"]
    /\ op' = TOp(t, "check_end")
    /\ UNCHANGED <<steps, disk, c_map>>
    /\ ConcIdle

\* self.write_page(container_id, pg, tid).unwrap(); return ValueId {..}
TWritePage(t) ==
    /\ th[t].pc = "write_page"
    /\ LET w == sm_write_page(disk, c_map, ConcContainer, th[t].pg)
       IN  IF w.ret # 0
           THEN /\ th' = [th EXCEPT ![t].pc = "panic", ![t].ret = PanicId]
                /\ UNCHANGED <<disk, c_map>>
           ELSE /\ th' = [th EXCEPT ![t].pc = "done"]
                /\ disk' = w.disk
                /\ c_map' = w.c_map
    /\ op' = TOp(t, "write_page")
    /\ UNCHANGED steps
    /\ ConcIdle

ConcInit ==
    /\ opiter = NoOperator
    /\ written = EmptyFcn
    /\ inserted = <<>>
    /\ page = Page_new(0)
    /\ op = NoOp
    /\ steps = 0
    /\ overflow_checks \in BOOLEAN
    /\ LET r == create_container(EmptyFcn, EmptyFcn, ConcContainer)
       IN  disk = r.disk /\ c_map = r.c_map
    /\ sidecar = <<NONE>>
    /\ issued = EmptyFcn
    /\ iter = NoIter
    /\ th = NoThreads

ConcNext ==
    \/ CSeqInsert
    \/ \E t \in Threads : TStart(t)
    \/ \E t \in Threads : TNumPages(t)
    \/ \E t \in Threads : TGetPage(t)
    \/ \E t \in Threads : TCheckEnd(t)
    \/ \E t \in Threads : TWritePage(t)

SpecConc == ConcInit /\ [][ConcNext]_vars

-----------------------------------------------------------------------------
(* Properties of the storage manager                                       *)

Ok(bytes) == [ret |-> 0, bytes |-> bytes]

\* C6: insert_value of a value of 1..PAGE_SIZE bytes returns a ValueId under
\* which get_value returns Ok with exactly the inserted bytes, and every
\* ValueId issued earlier and not deleted since still reads back its bytes
\* after the insert.
C6_InsertThenGet ==
    [][(op'.name = "insert") =>
          /\ op'.ret = 0
          /\ \A id \in DOMAIN issued' :
                sm_get_value(disk', c_map', id, overflow_checks) = Ok(issued'[id])
      ]_vars

\* C7: delete_value returns Ok(()) whether or not the target exists, also for
\* a ValueId that was deleted before, and every other stored value reads
\* back as before the call.
C7_DeleteTotal ==
    [][(op'.name = "delete") =>
          /\ op'.ret = 0
          /\ \A id \in (DOMAIN issued) \ {op'.slot} :
                sm_get_value(disk', c_map', id, overflow_checks)
                   = sm_get_value(disk, c_map, id, overflow_checks)
      ]_vars

\* both insert_value calls have returned or aborted
BothReturned == \A t \in Threads : th[t].pc \in {"done", "panic"}

\* C8: when two threads have called insert_value concurrently on one
\* container, both calls have returned ValueIds, the two ValueIds differ, and
\* get_value returns under each the bytes that thread inserted.
C8_ConcurrentInsertsDistinct ==
    BothReturned =>
        /\ \A t \in Threads : th[t].pc = "done"
        /\ th[1].ret # th[2].ret
        /\ \A t \in Threads :
              sm_get_value(disk, c_map, th[t].ret, overflow_checks) = Ok(th[t].value)

\* C9: a manager constructed on the storage path after shutdown() holds the
\* same container ids with the same page counts, and get_value returns the
\* original bytes for every ValueId issued before the shutdown.
C9_RestartRestores ==
    [][(op.name = "shutdown" /\ op'.name = "restart") =>
          /\ DOMAIN c_map' = DOMAIN c_map
          /\ \A c \in DOMAIN c_map : c_map'[c].pg_cnt = c_map[c].pg_cnt
          /\ \A id \in DOMAIN issued :
                sm_get_value(disk', c_map', id, overflow_checks) = Ok(issued[id])
      ]_vars

\* the ValueIds of container c under which get_value returns Ok
LiveIds(c) ==
    {id \in {<<c, p, s>> : p \in 0..(c_map[c].pg_cnt - 1), s \in 0..(PAGE_SIZE \div 6)} :
        sm_get_value(disk, c_map, id, overflow_checks).ret = 0}

\* ValueIds of one container ordered by page id, then slot id
Before(a, b) == a[2] < b[2] \/ (a[2] = b[2] /\ a[3] < b[3])

\* C10: with no concurrent modification the iterator yields exactly the live
\* values of the container, once each, by ascending page id and slot id, each
\* with the ValueId under which get_value returns the same bytes, then None.
C10_IteratorScansLiveValues ==
    (iter.active /\ iter.done /\ ~iter.dirty /\ iter.cid \in DOMAIN c_map) =>
        /\ {iter.out[k][2] : k \in 1..Len(iter.out)} = LiveIds(iter.cid)
        /\ \A k \in 1..Len(iter.out) :
              sm_get_value(disk, c_map, iter.out[k][2], overflow_checks) = Ok(iter.out[k][1])
        /\ \A k \in 1..Len(iter.out), l \in 1..Len(iter.out) :
              k < l => Before(iter.out[k][2], iter.out[l][2])

\* C10 witness: a finished scan that yielded two values of page 0 and then
\* crossed to page 1
C10_Witness ==
    /\ iter.active /\ iter.done /\ ~iter.dirty
    /\ Len(iter.out) = 3
    /\ iter.out[2][2] = <<iter.cid, 0, 1>>
    /\ iter.out[3][2] = <<iter.cid, 1, 0>>

-----------------------------------------------------------------------------
(* The insert-only specification: a sequence of insert_value calls on one  *)
(* container, with scans by the iterator in between.                       *)

\* values that fit in a page: one byte, half a page, the longest a fresh
\* page accepts
InsValues == {Val(1, 17), Val(PAGE_SIZE \div 2, 200), Val(PAGE_SIZE - 11, 17)}

InsInsertValue ==
    /\ op.ret # PANIC
    /\ Len(inserted) < MaxIns
    /\ \E value \in InsValues :
          LET r == sm_insert_value(disk, c_map, ConcContainer, value, overflow_checks)
          IN  /\ disk' = r.disk
              /\ c_map' = r.c_map
              /\ op' = SMOp("insert", r.ret, value, IF r.ret = PanicId THEN PANIC ELSE 0)
              /\ inserted' = IF r.ret = PanicId THEN inserted
                             ELSE Append(inserted, <<value, r.ret>>)
    /\ iter' = Disturb(ConcContainer)
    /\ steps' = steps + 1
    /\ UNCHANGED <<page, overflow_checks, sidecar, issued, th, written, opiter>>

InsInit ==
    /\ opiter = NoOperator
    /\ written = EmptyFcn
    /\ inserted = <<>>
    /\ page = Page_new(0)
    /\ op = NoOp
    /\ steps = 0
    /\ overflow_checks \in BOOLEAN
    /\ LET r == create_container(EmptyFcn, EmptyFcn, ConcContainer)
       IN  disk = r.disk /\ c_map = r.c_map
    /\ sidecar = <<NONE>>
    /\ issued = EmptyFcn
    /\ iter = NoIter
    /\ th = NoThreads

InsNext ==
    \/ InsInsertValue
    \/ SMGetIterator
    \/ SMIterNext

SpecIns == InsInit /\ [][InsNext]_vars

\* a scan of the container that ran to None after the last insert
ScanComplete == iter.active /\ iter.done /\ ~iter.dirty /\ iter.cid = ConcContainer

\* the ValueIds of a sequence of <<bytes, ValueId>> pairs
IdsOf(seq) == [k \in 1..Len(seq) |-> seq[k][2]]

\* every insert_value call returned a ValueId above all earlier ones
Appended == \A k \in 1..Len(inserted), l \in 1..Len(inserted) :
                k < l => Before(inserted[k][2], inserted[l][2])

\* C11 as stated: after an insert-only workload the iterator yields the
\* values in the order of the insert_value calls that stored them.
C11_InsertionOrder ==
    ScanComplete => IdsOf(iter.out) = IdsOf(inserted)

\* C11 amended: after an insert-only workload the iterator yields the values
\* in ascending (page, slot) order, which is the order of the insert_value
\* calls exactly when no call placed its value on a page before the last one.
C11_PageSlotOrder ==
    ScanComplete =>
        /\ \A k \in 1..Len(iter.out), l \in 1..Len(iter.out) :
              k < l => Before(iter.out[k][2], iter.out[l][2])
        /\ {iter.out[k][2] : k \in 1..Len(iter.out)} = {inserted[k][2] : k \in 1..Len(inserted)}
        /\ (IdsOf(iter.out) = IdsOf(inserted)) <=> Appended

\* C11 witness: three inserts landed in call order on two pages and were
\* scanned
C11_Witness ==
    /\ ScanComplete
    /\ Len(inserted) = 3
    /\ Appended
    /\ inserted[3][2][2] = 1
    /\ IdsOf(iter.out) = IdsOf(inserted)

-----------------------------------------------------------------------------
(* The heap file specification: one HeapFile (that of ConcContainer) is    *)
(* written and read page by page; `page` is the page the caller holds.     *)

\* logical page ids, written in any order
HFPageIds == {0, 1, 300}

\* values offered to add_value on the page held: one byte, and the longest
\* value the page accepts
HFValues(p) ==
    {Val(1, 17)} \cup {Val(n, 200) : n \in {FreeInt(p) - 6} \cap (1..PAGE_SIZE)}

HFRunning == op.ret # PANIC /\ steps < MaxHFOps

HFIdle == UNCHANGED <<overflow_checks, sidecar, issued, iter, th, inserted, opiter>>

HFOp(name, pid, ret) == [name |-> name, slot |-> pid, bytes |-> <<>>, ret |-> ret]

HFNewPage ==
    /\ HFRunning
    /\ \E pid \in HFPageIds :
          /\ page' = Page_new(pid)
          /\ op' = HFOp("new", pid, 0)
    /\ steps' = steps + 1
    /\ UNCHANGED <<disk, c_map, written>>
    /\ HFIdle

HFAddValue ==
    /\ HFRunning
    /\ \E value \in HFValues(page) :
          LET r == add_value(page, value, overflow_checks)
          IN  /\ page' = r.page
              /\ op' = HFOp("add", page.p_id, r.ret)
    /\ steps' = steps + 1
    /\ UNCHANGED <<disk, c_map, written>>
    /\ HFIdle

HFDeleteValue ==
    /\ HFRunning
    /\ \E s \in {0} :
          LET r == delete_value(page, s, overflow_checks)
          IN  /\ page' = r.page
              /\ op' = HFOp("delete", page.p_id, r.ret)
    /\ steps' = steps + 1
    /\ UNCHANGED <<disk, c_map, written>>
    /\ HFIdle

HFWritePage ==
    /\ HFRunning
    /\ LET w == write_page_to_file(c_map[ConcContainer], disk[ConcContainer], page)
       IN  /\ disk' = [disk EXCEPT ![ConcContainer] = w.file]
           /\ c_map' = [c_map EXCEPT ![ConcContainer] = w.hf]
           /\ op' = HFOp("write", page.p_id, w.ret)
           /\ written' = IF w.ret = 0 THEN MapInsert(written, page.p_id, to_bytes(page).bytes)
                         ELSE written
    /\ steps' = steps + 1
    /\ UNCHANGED page
    /\ HFIdle

\* read_page_from_file(pid); the caller goes on with the page it got
HFReadPage ==
    /\ op.ret # PANIC
    /\ \E pid \in HFPageIds :
          LET r == read_page_from_file(c_map[ConcContainer], disk[ConcContainer], pid)
          IN  /\ page' = IF r.ok THEN r.page ELSE page
              /\ op' = HFOp("read", pid, IF r.ok THEN 0 ELSE ERR)
    /\ UNCHANGED <<steps, disk, c_map, written>>
    /\ HFIdle

\* HeapFile::new on the file as it is (the file is opened again)
HFReopen ==
    /\ HFRunning
    /\ c_map' = [c_map EXCEPT ![ConcContainer] =
                    HeapFile_new(disk[ConcContainer], ConcContainer)]
    /\ op' = HFOp("reopen", NONE, 0)
    /\ steps' = steps + 1
    /\ UNCHANGED <<page, disk, written>>
    /\ HFIdle

HFInit ==
    /\ opiter = NoOperator
    /\ written = EmptyFcn
    /\ inserted = <<>>
    /\ page = Page_new(0)
    /\ op = NoOp
    /\ steps = 0
    /\ overflow_checks \in BOOLEAN
    /\ LET r == create_container(EmptyFcn, EmptyFcn, ConcContainer)
       IN  disk = r.disk /\ c_map = r.c_map
    /\ sidecar = <<NONE>>
    /\ issued = EmptyFcn
    /\ iter = NoIter
    /\ th = NoThreads

HFNext ==
    \/ HFNewPage
    \/ HFAddValue
    \/ HFDeleteValue
    \/ HFWritePage
    \/ HFReadPage
    \/ HFReopen

SpecHF == HFInit /\ [][HFNext]_vars

\* read_page_from_file on the file as it is now
ReadNow(pid) == read_page_from_file(c_map[ConcContainer], disk[ConcContainer], pid)

\* C12: read_page_from_file(pid) returns Ok only with a page whose id is pid,
\* returns Ok whenever a page with id pid has been written to the file, and
\* returns an error when no page of the file has that id.
C12_ReadByLogicalId ==
    \A pid \in HFPageIds \cup {2} :
        /\ ReadNow(pid).ok => ReadNow(pid).page.p_id = pid
        /\ ReadNow(pid).ok <=> pid \in DOMAIN written
        /\ (op.name = "read" /\ op.slot = pid) =>
              /\ op.ret \in {0, ERR}
              /\ op.ret = 0 <=> pid \in DOMAIN written
              /\ op.ret = 0 => page.p_id = pid

\* C12 witness: page 0 was read back from a file whose first page has id 300
C12_Witness ==
    /\ op.name = "read" /\ op.slot = 0 /\ op.ret = 0
    /\ Len(disk[ConcContainer]) = 2
    /\ from_bytes(disk[ConcContainer][1]).p_id = 300

\* C13: after write_page_to_file(p) succeeds, read_page_from_file(p.page_id)
\* serializes to p.to_bytes() byte for byte, and every page with another id
\* that was readable before reads back with the same bytes as before.
C13_WriteThenRead ==
    [][(op'.name = "write" /\ op'.ret = 0) =>
          /\ LET r == read_page_from_file(c_map'[ConcContainer], disk'[ConcContainer], page.p_id)
             IN  r.ok /\ to_bytes(r.page) = to_bytes(page)
          /\ \A pid \in (HFPageIds \cup {2}) \ {page.p_id} :
                ReadNow(pid).ok =>
                   LET r == read_page_from_file(c_map'[ConcContainer],
                                                disk'[ConcContainer], pid)
                   IN  r.ok /\ to_bytes(r.page) = to_bytes(ReadNow(pid).page)
      ]_vars

\* C13 witness: a page holding a value replaced its earlier version in a
\* file that holds another page as well
C13_Witness ==
    /\ op.name = "write" /\ op.ret = 0
    /\ Len(disk[ConcContainer]) = 2
    /\ c_map[ConcContainer].pg_cnt = 2
    /\ page.slot_map # EmptyMap
    /\ from_bytes(disk[ConcContainer][1]).p_id = page.p_id

-----------------------------------------------------------------------------
(* The value specification: insert_value, delete_value, update_value and   *)
(* get_value on a manager holding the container ConcContainer; `issued`    *)
(* maps the ValueIds handed out and not deleted to the bytes stored.       *)

\* ValueIds handed to get_value: live, deleted and never used slots, pages
\* that do not exist, a container that does not exist
KVProbeIds == {<<c, p, s>> : c \in Containers, p \in {0, 1}, s \in {0, 1}}

\* no call has aborted, and no update_value call is half way
KVRunning == op.ret # PANIC /\ op.name # "update_delete" /\ steps < MaxKVOps

KVIdle == UNCHANGED <<page, overflow_checks, sidecar, iter, th, inserted, written, opiter>>

KVInsertValue ==
    /\ KVRunning
    /\ \E value \in InsValues :
          \E r \in {sm_insert_value(disk, c_map, ConcContainer, value, overflow_checks)} :
              /\ disk' = r.disk
              /\ c_map' = r.c_map
              /\ op' = SMOp("insert", r.ret, value, IF r.ret = PanicId THEN PANIC ELSE 0)
              /\ issued' = IF r.ret = PanicId THEN issued ELSE MapInsert(issued, r.ret, value)
    /\ steps' = steps + 1
    /\ KVIdle

\* delete_value of a value that is stored
KVDeleteValue ==
    /\ KVRunning
    /\ \E id \in DOMAIN issued :
          \E r \in {sm_delete_value(disk, c_map, id, overflow_checks)} :
              /\ disk' = r.disk
              /\ c_map' = r.c_map
              /\ op' = SMOp("delete", id, <<>>, r.ret)
              /\ issued' = IF r.ret = 0 THEN MapRemove(issued, id) ELSE issued
    /\ steps' = steps + 1
    /\ KVIdle

\* update_value of a value that is stored, first half: self.delete_value(id);
\* an Err would be returned as it is, a panic ends the call
KVUpdateDelete ==
    /\ KVRunning
    /\ \E id \in DOMAIN issued, value \in InsValues :
          \E d \in {sm_delete_value(disk, c_map, id, overflow_checks)} :
              /\ disk' = d.disk
              /\ c_map' = d.c_map
              /\ op' = [name |-> "update_delete", slot |-> id, bytes |-> value,
                        ret |-> d.ret, old |-> id]
    /\ UNCHANGED <<steps, issued>>
    /\ KVIdle

\* update_value, second half: Ok(self.insert_value(id.container_id, value));
\* op.old is the ValueId passed in, op.slot the one returned
KVUpdateInsert ==
    /\ op.name = "update_delete"
    /\ op.ret = 0
    /\ \E id \in {op.old}, container_id \in {op.old[1]}, value \in {op.bytes} :
          \E r \in {sm_insert_value(disk, c_map, container_id, value, overflow_checks)} :
              /\ disk' = r.disk
              /\ c_map' = r.c_map
              /\ op' = [name |-> "update", slot |-> r.ret, bytes |-> value,
                        ret |-> IF r.ret = PanicId THEN PANIC ELSE 0, old |-> id]
              /\ issued' = IF r.ret = PanicId THEN issued
                           ELSE MapInsert(MapRemove(issued, id), r.ret, value)
    /\ steps' = steps + 1
    /\ KVIdle

KVGetValue ==
    /\ op.ret # PANIC
    /\ op.name # "update_delete"
    /\ \E id \in KVProbeIds :
          \E r \in {sm_get_value(disk, c_map, id, overflow_checks)} :
              op' = SMOp("get", id, r.bytes, r.ret)
    /\ UNCHANGED <<steps, disk, c_map, issued>>
    /\ KVIdle

KVInit ==
    /\ opiter = NoOperator
    /\ written = EmptyFcn
    /\ inserted = <<>>
    /\ page = Page_new(0)
    /\ op = NoOp
    /\ steps = 0
    /\ overflow_checks \in BOOLEAN
    /\ LET r == create_container(EmptyFcn, EmptyFcn, ConcContainer)
       IN  disk = r.disk /\ c_map = r.c_map
    /\ sidecar = <<NONE>>
    /\ issued = EmptyFcn
    /\ iter = NoIter
    /\ th = NoThreads

KVNext ==
    \/ KVInsertValue
    \/ KVDeleteValue
    \/ KVUpdateDelete
    \/ KVUpdateInsert
    \/ KVGetValue

SpecKV == KVInit /\ [][KVNext]_vars

\* the slot named by id is live: container, page and slot exist, length > 0
LiveSlot(id) ==
    /\ id[1] \in DOMAIN c_map
    /\ sm_get_page(disk, c_map, id[1], id[2]).ok
    /\ id[3] \in LiveSlots(sm_get_page(disk, c_map, id[1], id[2]).page)

\* C14: get_value returns an error value, without aborting, whenever the
\* slot, the page or the container named by the ValueId does not exist, and
\* returns Ok(bytes) only for a live slot.
C14_GetValueErrors ==
    (op.name = "get") =>
        /\ op.ret \in {0, ERR}
        /\ op.ret = 0 <=> LiveSlot(op.slot)

\* C15: update_value(bytes, id) on a stored value returns Ok(new_id) with
\* get_value(new_id) = bytes, the old bytes are not returned under id any
\* more unless new_id = id, and every other stored value still reads back
\* the bytes it read back before the call.
C15_UpdateValue ==
    [][/\ (op'.name \in {"update_delete", "update"}) =>
             /\ op'.ret = 0
             /\ \A id \in (DOMAIN issued) \ {op'.old} :
                   sm_get_value(disk', c_map', id, overflow_checks)
                      = sm_get_value(disk, c_map, id, overflow_checks)
       /\ (op'.name = "update") =>
             /\ sm_get_value(disk', c_map', op'.slot, overflow_checks) = Ok(op'.bytes)
             /\ op'.slot # op'.old =>
                   sm_get_value(disk', c_map', op'.old, overflow_checks).ret # 0
      ]_vars

-----------------------------------------------------------------------------
(* Query operators (queryexe/src/opiterator/join.rs).  A tuple is a sequence
   of integer fields; an Option<Tuple> is a sequence of length 0 (None) or 1
   (Some).  The children of a join are TupleIterators: a vector of tuples and
   an index, which is NONE while the iterator is closed. *)

MaxLeft == 2            \* longest left (outer) child
MaxRight == 2           \* longest right (inner) child
MaxJoinOps == 6         \* calls made on one operator

NoTuple == <<>>

Some(t) == <<t>>

TupleIterator_new(tuples) == [tuples |-> tuples, index |-> NONE]

\* open on an already-open operator is a no-op.
ti_open(t) == IF t.index = NONE THEN [t EXCEPT !.index = 0] ELSE t

\* next yields the tuples in order, then None; it is fatal on a closed iterator.
ti_next(t) ==
    IF t.index = NONE THEN [it |-> t, ret |-> NoTuple, panic |-> TRUE]
    ELSE IF t.index < Len(t.tuples)
         THEN [it |-> [t EXCEPT !.index = @ + 1],
               ret |-> Some(t.tuples[t.index + 1]), panic |-> FALSE]
         ELSE [it |-> t, ret |-> NoTuple, panic |-> FALSE]

\* rewind resets iteration to the first tuple; it is fatal on a closed iterator.
ti_rewind(t) ==
    IF t.index = NONE THEN [it |-> t, panic |-> TRUE]
    ELSE [it |-> [t EXCEPT !.index = 0], panic |-> FALSE]

ti_close(t) ==
    IF t.index = NONE THEN [it |-> t, panic |-> TRUE]
    ELSE [it |-> [t EXCEPT !.index = NONE], panic |-> FALSE]

\* Tuple::get_field(i), i counted from 0.
get_field(t, i) == t[i + 1]

JoinOps == {"Equals", "NotEq", "LessThan", "LessThanOrEq", "GreaterThan", "GreaterThanOrEq"}

\* SimplePredicateOp::compare on two integer fields.
compare(o, a, b) ==
    CASE o = "Equals" -> a = b
      [] o = "NotEq" -> a # b
      [] o = "LessThan" -> a < b
      [] o = "LessThanOrEq" -> a <= b
      [] o = "GreaterThan" -> a > b
      [] o = "GreaterThanOrEq" -> a >= b

JoinPredicate_new(o, left_index, right_index) ==
    [op |-> o, left_index |-> left_index, right_index |-> right_index]

ConcatRightFirst(ltuple, rtuple) == rtuple \o ltuple

\* The fields of the left tuple followed by the fields of the right tuple.
Concat(ltuple, rtuple) == ltuple \o rtuple

Join_new(o, left_index, right_index, left_child, right_child) ==
    [kind |-> "Join",
     predicate |-> JoinPredicate_new(o, left_index, right_index),
     left_child |-> left_child, right_child |-> right_child,
     open |-> FALSE, out_tup |-> NoTuple]

\* Join::next.  The result is the operator afterwards, the Option returned and
\* whether the call aborted.
RECURSIVE Join_next(_)
Join_next(j) ==
    IF ~j.open THEN [j |-> j, ret |-> NoTuple, panic |-> TRUE]
    ELSE
    LET l1 == IF j.out_tup = NoTuple THEN ti_next(j.left_child)
              ELSE [it |-> j.left_child, ret |-> j.out_tup, panic |-> FALSE]
        j1 == [j EXCEPT !.left_child = l1.it, !.out_tup = l1.ret]
    IN  IF j1.out_tup # NoTuple
        THEN LET ltuple == j1.out_tup[1]
                 rnext == ti_next(j1.right_child)
                 j2 == [j1 EXCEPT !.right_child = rnext.it]
             IN  IF rnext.ret # NoTuple
                 THEN LET rtuple == rnext.ret[1]
                      IN  IF compare(j2.predicate.op,
                                     get_field(ltuple, j2.predicate.left_index),
                                     get_field(rtuple, j2.predicate.right_index))
                          THEN [j |-> j2, ret |-> Some(Concat(ltuple, rtuple)),
                                panic |-> FALSE]
                          ELSE Join_next(j2)
                 ELSE LET lnext == ti_next(j2.left_child)
                          j3 == [j2 EXCEPT !.right_child = ti_rewind(@).it,
                                           !.left_child = lnext.it,
                                           !.out_tup = lnext.ret]
                      IN  IF j3.out_tup = NoTuple
                          THEN [j |-> j3, ret |-> NoTuple, panic |-> FALSE]
                          ELSE Join_next(j3)
        ELSE [j |-> j1, ret |-> NoTuple, panic |-> FALSE]

\* The build loop of HashEqJoin::new: every right tuple is pushed on the vector
\* of its key.
RECURSIVE BuildLoop(_, _, _)
BuildLoop(right_child, right_index, hash_table) ==
    LET n == ti_next(right_child)
    IN  IF n.ret = NoTuple THEN hash_table
        ELSE LET tuple == n.ret[1]
                 hash == get_field(tuple, right_index)
             IN  BuildLoop(n.it, right_index,
                    IF hash \in DOMAIN hash_table
                    THEN [hash_table EXCEPT ![hash] = Append(@, tuple)]
                    ELSE [k \in DOMAIN hash_table \cup {hash} |->
                             IF k = hash THEN <<tuple>> ELSE hash_table[k]])

\* HashEqJoin::new: the right child is opened, drained, rewound and closed.
HashEqJoin_new(o, left_index, right_index, left_child, right_child) ==
    [kind |-> "HashEqJoin",
     predicate |-> JoinPredicate_new(o, left_index, right_index),
     left_child |-> left_child, right_child |-> right_child,
     hash_table |-> BuildLoop(ti_open(right_child), right_index, EmptyFcn),
     open |-> FALSE]

\* HashEqJoin::next: the first tuple of the vector found under the key of the
\* next left tuple (self.hash_table.get(hash).unwrap().iter().next()).
RECURSIVE HashEqJoin_next(_)
HashEqJoin_next(j) ==
    IF ~j.open THEN [j |-> j, ret |-> NoTuple, panic |-> TRUE]
    ELSE
    LET lnext == ti_next(j.left_child)
        j1 == [j EXCEPT !.left_child = lnext.it]
    IN  IF lnext.ret # NoTuple
        THEN LET ltuple == lnext.ret[1]
                 hash == get_field(ltuple, j1.predicate.left_index)
             IN  IF hash \in DOMAIN j1.hash_table
                 THEN IF Len(j1.hash_table[hash]) > 0
                      THEN [j |-> j1,
                            ret |-> Some(Concat(ltuple, j1.hash_table[hash][1])),
                            panic |-> FALSE]
                      ELSE [j |-> j1, ret |-> NoTuple, panic |-> FALSE]
                 ELSE HashEqJoin_next(j1)
        ELSE [j |-> j1, ret |-> NoTuple, panic |-> FALSE]

\* next of either join.
oi_next(j) == IF j.kind = "Join" THEN Join_next(j) ELSE HashEqJoin_next(j)

oi_open_rewinding(j) ==
    [j EXCEPT !.left_child = [@ EXCEPT !.index = 0],
              !.right_child = [@ EXCEPT !.index = 0], !.open = TRUE]

\* Join::open and HashEqJoin::open: the children first, then the flag.
oi_open(j) ==
    [j EXCEPT !.left_child = ti_open(@), !.right_child = ti_open(@), !.open = TRUE]

\* Join::rewind and HashEqJoin::rewind: the children are rewound, nothing else
\* changes.
oi_rewind(j) ==
    LET l == ti_rewind(j.left_child)
        r == ti_rewind(j.right_child)
    IN  IF l.panic THEN [j |-> j, panic |-> TRUE]
        ELSE IF r.panic THEN [j |-> [j EXCEPT !.left_child = l.it], panic |-> TRUE]
        ELSE [j |-> [j EXCEPT !.left_child = l.it, !.right_child = r.it],
              panic |-> FALSE]

\* Join::close aborts on an operator that is not open; HashEqJoin::close lets
\* its children abort.
oi_close(j) ==
    LET l == ti_close(j.left_child)
        r == ti_close(j.right_child)
    IN  IF ~j.open \/ l.panic \/ r.panic THEN [j |-> j, panic |-> TRUE]
        ELSE [j |-> [j EXCEPT !.left_child = l.it, !.right_child = r.it,
                              !.open = FALSE],
              panic |-> FALSE]

-----------------------------------------------------------------------------
(* SpecJoin: one join operator over two in-memory children.  op records the
   last call, the Options returned by next since the operator was last
   opened from the closed state or rewound (out), whether it has been opened
   from new and neither closed nor rewound since (fresh), whether out starts
   at a rewind (rewound) and whether out starts at an open after a close
   (reopened). *)

LeftTuples == {<<1, 5>>, <<2, 6>>}

RightTuples == {<<1, 7>>, <<1, 8>>, <<2, 9>>}

SeqsUpTo(S, n) == UNION {[1..k -> S] : k \in 0..n}

JoinOp(name, ret, panic, out, fresh, rewound, reopened) ==
    [name |-> name, ret |-> ret, panic |-> panic, out |-> out,
     fresh |-> fresh, rewound |-> rewound, reopened |-> reopened]

\* op after open: a call on an operator that is already open leaves the record
\* of what next has returned as it is.
OpenOp(was_open) ==
    IF was_open THEN [op EXCEPT !.name = "open", !.ret = NoTuple]
    ELSE JoinOp("open", NoTuple, FALSE, <<>>, op.name = "new", FALSE,
                op.name # "new")

JoinRunning == ~op.panic /\ steps < MaxJoinOps

JoinIdle ==
    UNCHANGED <<page, overflow_checks, disk, sidecar, c_map, issued, iter, th,
                inserted, written>>

JOpen ==
    /\ JoinRunning
    /\ opiter' = oi_open(opiter)
    /\ op' = OpenOp(opiter.open)
    /\ steps' = steps + 1
    /\ JoinIdle

JNext ==
    /\ JoinRunning
    /\ \E r \in {oi_next(opiter)} :
          /\ opiter' = r.j
          /\ op' = JoinOp("next", r.ret, r.panic, Append(op.out, r.ret),
                          op.fresh, op.rewound, op.reopened)
    /\ steps' = steps + 1
    /\ JoinIdle

JRewind ==
    /\ JoinRunning
    /\ \E r \in {oi_rewind(opiter)} :
          /\ opiter' = r.j
          /\ op' = JoinOp("rewind", NoTuple, r.panic, <<>>, FALSE, TRUE, FALSE)
    /\ steps' = steps + 1
    /\ JoinIdle

JClose ==
    /\ JoinRunning
    /\ \E r \in {oi_close(opiter)} :
          /\ opiter' = r.j
          /\ op' = JoinOp("close", NoTuple, r.panic, <<>>, FALSE, FALSE, FALSE)
    /\ steps' = steps + 1
    /\ JoinIdle

JoinInit ==
    /\ written = EmptyFcn
    /\ inserted = <<>>
    /\ page = Page_new(0)
    /\ steps = 0
    /\ overflow_checks = FALSE
    /\ disk = EmptyFcn
    /\ sidecar = <<NONE>>
    /\ c_map = EmptyFcn
    /\ issued = EmptyFcn
    /\ iter = NoIter
    /\ th = NoThreads
    /\ \E o \in JoinOps, l \in SeqsUpTo(LeftTuples, MaxLeft),
          r \in SeqsUpTo(RightTuples, MaxRight) :
          \/ opiter = Join_new(o, 0, 0, TupleIterator_new(l), TupleIterator_new(r))
          \/ /\ o = "Equals"
             /\ opiter = HashEqJoin_new(o, 0, 0, TupleIterator_new(l),
                                        TupleIterator_new(r))
    /\ op = JoinOp("new", NoTuple, FALSE, <<>>, FALSE, FALSE, FALSE)

JoinNext == JOpen \/ JNext \/ JRewind \/ JClose

SpecJoin == JoinInit /\ [][JoinNext]_vars

-----------------------------------------------------------------------------
(* Properties of the join operators *)

\* Every (outer, inner) pair of the two children, outer-first then inner.
Product(l, r) ==
    [n \in 1..(Len(l) * Len(r)) |->
        <<l[((n - 1) \div Len(r)) + 1], r[((n - 1) % Len(r)) + 1]>>]

\* The pairs of the children of j that satisfy its predicate, in that order.
Satisfying(j) ==
    LET Test(p) == compare(j.predicate.op,
                           get_field(p[1], j.predicate.left_index),
                           get_field(p[2], j.predicate.right_index))
    IN  SelectSeq(Product(j.left_child.tuples, j.right_child.tuples), Test)

\* What the i-th next call on a join over all satisfying pairs returns.
ExpectedAt(j, i) ==
    LET s == Satisfying(j)
    IN  IF i <= Len(s) THEN Some(s[i][1] \o s[i][2]) ELSE NoTuple

\* An operator constructed over the same children and predicate, then opened.
FreshlyOpened(j) ==
    LET l == TupleIterator_new(j.left_child.tuples)
        r == TupleIterator_new(j.right_child.tuples)
        p == j.predicate
    IN  oi_open(IF j.kind = "Join"
                THEN Join_new(p.op, p.left_index, p.right_index, l, r)
                ELSE HashEqJoin_new(p.op, p.left_index, p.right_index, l, r))

\* The Options returned by n next calls on j.
RECURSIVE Run(_, _)
Run(j, n) ==
    IF n = 0 THEN <<>>
    ELSE LET r == oi_next(j) IN <<r.ret>> \o Run(r.j, n - 1)

\* C16: a hash equi-join that has been opened and never rewound returns, call
\* after call, L ++ r for every right tuple r whose key equals the key of L, in
\* build order, for each left tuple L in order, and None afterwards: the output
\* of the nested-loop join under Equals, duplicate right keys included.
C16_HashJoinAllMatches ==
    (opiter.kind = "HashEqJoin" /\ op.fresh) =>
        \A i \in 1..Len(op.out) : op.out[i] = ExpectedAt(opiter, i)

\* C17: a nested-loop join that has been opened and never rewound returns, call
\* after call, outer ++ inner for exactly the pairs that satisfy the predicate,
\* outer-first then inner, and None afterwards.
C17_NestedLoopJoin ==
    (opiter.kind = "Join" /\ op.fresh) =>
        \A i \in 1..Len(op.out) : op.out[i] = ExpectedAt(opiter, i)

\* Three pairs satisfy <= over two outer and two inner tuples; the fourth next
\* call has returned None.
C17_Witness ==
    /\ opiter.kind = "Join"
    /\ opiter.predicate.op = "LessThanOrEq"
    /\ op.fresh
    /\ op.name = "next"
    /\ Len(op.out) = 4
    /\ op.out[3] # NoTuple
    /\ op.ret = NoTuple

\* C18: after rewind on an open join, the next calls return what the same
\* calls return on a freshly opened operator over the same children.
C18_RewindRestarts ==
    (opiter.kind # "none" /\ op.rewound /\ ~op.panic) =>
        op.out = Run(FreshlyOpened(opiter), Len(op.out))

-----------------------------------------------------------------------------
(* Grouped aggregation (queryexe/src/opiterator/aggregate.rs).  A Field is a
   pair <<variant, value>>: variant 0 is IntField with an integer, variant 1 is
   StringField with the bytes of the string.  An Option<Field> is a sequence
   of length 0 or 1. *)

MaxChild == 3           \* longest child of an Aggregate
MaxAggOps == 5          \* calls made on one Aggregate

IntField(n) == <<0, n>>

StringField(bytes) == <<1, bytes>>

\* A field that could not be computed: unwrap_int_field of a StringField.
PanicField == <<2, 0>>

\* Ord of String: bytewise, a proper prefix first.
RECURSIVE LexLe(_, _)
LexLe(a, b) ==
    IF a = <<>> THEN TRUE
    ELSE IF b = <<>> THEN FALSE
    ELSE IF a[1] # b[1] THEN a[1] < b[1]
    ELSE LexLe(Tail(a), Tail(b))

\* Ord of Field: the variant first, then the value.
FieldLe(a, b) ==
    \/ a[1] < b[1]
    \/ /\ a[1] = b[1]
       /\ IF a[1] = 1 THEN LexLe(a[2], b[2]) ELSE a[2] <= b[2]

field_max_keep_running(running, new) == running

\* std::cmp::max and std::cmp::min on fields.
field_max(running, new) == IF FieldLe(running, new) THEN new ELSE running

field_min(running, new) == IF FieldLe(running, new) THEN running ELSE new

\* Division of i32: the quotient is truncated toward zero.
RustDiv(a, b) == IF a >= 0 THEN a \div b ELSE -((-a) \div b)

AggregateField(field, o) == [field |-> field, op |-> o]

\* The loop of merge over the tuples of the group: the sum of the integer
\* fields at attr.
RECURSIVE SumLoop(_, _)
SumLoop(tuples, attr) ==
    IF tuples = <<>> THEN 0
    ELSE LET f == get_field(Head(tuples), attr)
         IN  (IF f[1] = 0 THEN f[2] ELSE 0) + SumLoop(Tail(tuples), attr)

\* merge: the aggregate field after new has joined the group hash; run is the
\* field accumulated so far, if any.
merge(aggregator, run, new, hash, group_tupes, attr) ==
    LET sum == SumLoop(group_tupes[hash], attr)
        cnt == Len(group_tupes[hash])
        running0 == IF run # NoTuple THEN run[1] ELSE IntField(0)
        running ==
            CASE aggregator.op = "Count" -> IntField(cnt)
              [] aggregator.op = "Sum" ->
                    IF running0[1] = 0 /\ new[1] = 0
                    THEN IntField(running0[2] + new[2]) ELSE PanicField
              [] aggregator.op = "Max" -> field_max(running0, new)
              [] aggregator.op = "Min" -> field_min(running0, new)
              [] aggregator.op = "Avg" -> IntField(RustDiv(sum, cnt))
        item == aggregator.op # "Count"
    IN  IF running = PanicField THEN PanicField
        ELSE IF run # NoTuple THEN running
        ELSE IF item THEN new
        ELSE IntField(1)

Aggregator_new(agg_fields, groupby_fields) ==
    [agg_fields |-> agg_fields, groupby_fields |-> groupby_fields,
     group_aggs |-> EmptyFcn, group_tupes |-> EmptyFcn]

\* HashMap::insert on a map kept as a function.
HashInsert(map, k, v) ==
    [x \in DOMAIN map \cup {k} |-> IF x = k THEN v ELSE map[x]]

\* The key of a tuple: its group-by fields.
GroupKey(groupby_fields, tuple) ==
    [i \in 1..Len(groupby_fields) |-> get_field(tuple, groupby_fields[i])]

\* Aggregator::merge_tuple_into_group.
merge_tuple_into_group(a, tuple) ==
    LET groupby_fields == GroupKey(a.groupby_fields, tuple)
        group_tupes ==
            IF groupby_fields \in DOMAIN a.group_tupes
            THEN HashInsert(a.group_tupes, groupby_fields,
                            Append(a.group_tupes[groupby_fields], tuple))
            ELSE HashInsert(a.group_tupes, groupby_fields, <<tuple>>)
        agg_tup ==
            IF groupby_fields \in DOMAIN a.group_aggs
            THEN [i \in 1..Len(a.agg_fields) |->
                     merge(a.agg_fields[i],
                           Some(a.group_aggs[groupby_fields][i]),
                           get_field(tuple, a.agg_fields[i].field),
                           groupby_fields, group_tupes, a.agg_fields[i].field)]
            ELSE [i \in 1..Len(a.agg_fields) |->
                     merge(a.agg_fields[i], NoTuple,
                           get_field(tuple, a.agg_fields[i].field),
                           groupby_fields, group_tupes, a.agg_fields[i].field)]
    IN  [a EXCEPT !.group_tupes = group_tupes,
                  !.group_aggs = HashInsert(@, groupby_fields, agg_tup)]

iterator_aggregates_first(a, order) ==
    [i \in 1..Len(order) |-> a.group_aggs[order[i]] \o order[i]]

\* Aggregator::iterator: one tuple per entry of group_aggs, the key fields
\* followed by the aggregate fields; order is the iteration order of the map.
Aggregator_iterator(a, order) ==
    [i \in 1..Len(order) |-> order[i] \o a.group_aggs[order[i]]]

\* while let Some(child_tuple) = res.child.next() { merge_tuple_into_group }
RECURSIVE DrainChild(_, _)
DrainChild(child, a) ==
    LET n == ti_next(child)
    IN  IF n.ret = NoTuple THEN [child |-> n.it, agg |-> a]
        ELSE DrainChild(n.it, merge_tuple_into_group(a, n.ret[1]))

\* The iteration orders the HashMap group_aggs can have after the child
\* tuples have been merged.
IterationOrders(groupby_fields, agg_fields, tuples) ==
    Orders(DOMAIN DrainChild(ti_open(TupleIterator_new(tuples)),
                             Aggregator_new(agg_fields, groupby_fields)).agg.group_aggs)

\* Aggregate::new: the child is opened and drained into the Aggregator, and
\* the tuples of its iterator are cached.
Aggregate_new(groupby_fields, agg_fields, child, order) ==
    LET d == DrainChild(ti_open(child), Aggregator_new(agg_fields, groupby_fields))
        tuples == Aggregator_iterator(d.agg, order)
    IN  [kind |-> "Aggregate",
         groupby_fields |-> groupby_fields, agg_fields |-> agg_fields,
         agg_iter |-> [tuples |-> tuples, index |-> Len(tuples)],
         open |-> FALSE, child |-> d.child, agg |-> d.agg,
         prior_tuple |-> NoTuple, tuples |-> tuples, tuple_idx |-> 0]

\* Aggregate::open.
Aggregate_open(g) ==
    IF g.open THEN g ELSE [g EXCEPT !.child = ti_open(@), !.open = TRUE]

Aggregate_next_unchecked(g) ==
    IF g.tuple_idx < Len(g.tuples)
    THEN [j |-> [g EXCEPT !.tuple_idx = @ + 1],
          ret |-> Some(g.tuples[g.tuple_idx + 1]), panic |-> FALSE]
    ELSE [j |-> g, ret |-> NoTuple, panic |-> FALSE]

\* Aggregate::next.
Aggregate_next(g) ==
    IF ~g.open THEN [j |-> g, ret |-> NoTuple, panic |-> TRUE]
    ELSE IF g.tuple_idx < Len(g.tuples)
         THEN [j |-> [g EXCEPT !.tuple_idx = @ + 1],
               ret |-> Some(g.tuples[g.tuple_idx + 1]), panic |-> FALSE]
         ELSE [j |-> g, ret |-> NoTuple, panic |-> FALSE]

Aggregate_close_unchecked(g) ==
    LET i == ti_close(g.agg_iter)
        c == ti_close(g.child)
    IN  IF i.panic \/ c.panic THEN [j |-> g, panic |-> TRUE]
        ELSE [j |-> [g EXCEPT !.tuple_idx = 0, !.prior_tuple = NoTuple,
                              !.agg_iter = i.it, !.child = c.it, !.open = FALSE],
              panic |-> FALSE]

\* Aggregate::close.
Aggregate_close(g) ==
    LET i == ti_close(g.agg_iter)
        c == ti_close(g.child)
    IN  IF ~g.open \/ i.panic \/ c.panic THEN [j |-> g, panic |-> TRUE]
        ELSE [j |-> [g EXCEPT !.tuple_idx = 0, !.prior_tuple = NoTuple,
                              !.agg_iter = i.it, !.child = c.it, !.open = FALSE],
              panic |-> FALSE]

\* Aggregate::rewind.
Aggregate_rewind(g) ==
    LET c == ti_rewind(g.child)
        i == ti_rewind(g.agg_iter)
    IN  IF ~g.open \/ c.panic \/ i.panic THEN [j |-> g, panic |-> TRUE]
        ELSE [j |-> [g EXCEPT !.child = c.it, !.agg_iter = i.it,
                              !.tuple_idx = 0, !.prior_tuple = NoTuple],
              panic |-> FALSE]

-----------------------------------------------------------------------------
(* SpecAgg: one Aggregate over an in-memory child.  The child tuples have a
   group column, an integer column and a string column. *)

AggTuples ==
    {<<IntField(g), vs[1], vs[2]>> :
        g \in {1, 2},
        vs \in {<<IntField(-3), StringField(<<69, 71>>)>>,
                <<IntField(4), StringField(<<69>>)>>}}

GroupByChoices == {<<>>, <<0>>, <<0, 1>>}

AggFieldChoices ==
    {<<AggregateField(1, o)>> : o \in {"Count", "Sum", "Min", "Max", "Avg"}}
    \cup {<<AggregateField(2, o)>> : o \in {"Count", "Min", "Max"}}
    \cup {<<AggregateField(2, "Max"), AggregateField(1, "Sum")>>,
          <<AggregateField(1, "Avg"), AggregateField(1, "Count")>>}

AggRunning == ~op.panic /\ steps < MaxAggOps

AOpen ==
    /\ AggRunning
    /\ opiter' = Aggregate_open(opiter)
    /\ op' = OpenOp(opiter.open)
    /\ steps' = steps + 1
    /\ JoinIdle

ANext ==
    /\ AggRunning
    /\ \E r \in {Aggregate_next(opiter)} :
          /\ opiter' = r.j
          /\ op' = JoinOp("next", r.ret, r.panic, Append(op.out, r.ret),
                          op.fresh, op.rewound, op.reopened)
    /\ steps' = steps + 1
    /\ JoinIdle

ARewind ==
    /\ AggRunning
    /\ \E r \in {Aggregate_rewind(opiter)} :
          /\ opiter' = r.j
          /\ op' = JoinOp("rewind", NoTuple, r.panic, <<>>, FALSE, TRUE, FALSE)
    /\ steps' = steps + 1
    /\ JoinIdle

AClose ==
    /\ AggRunning
    /\ \E r \in {Aggregate_close(opiter)} :
          /\ opiter' = r.j
          /\ op' = JoinOp("close", NoTuple, r.panic, <<>>, FALSE, FALSE, FALSE)
    /\ steps' = steps + 1
    /\ JoinIdle

AggInit ==
    /\ written = EmptyFcn
    /\ inserted = <<>>
    /\ page = Page_new(0)
    /\ steps = 0
    /\ overflow_checks = FALSE
    /\ disk = EmptyFcn
    /\ sidecar = <<NONE>>
    /\ c_map = EmptyFcn
    /\ issued = EmptyFcn
    /\ iter = NoIter
    /\ th = NoThreads
    /\ \E groupby_fields \in GroupByChoices, agg_fields \in AggFieldChoices,
          tuples \in SeqsUpTo(AggTuples, MaxChild) :
          \E order \in IterationOrders(groupby_fields, agg_fields, tuples) :
             opiter = Aggregate_new(groupby_fields, agg_fields,
                                    TupleIterator_new(tuples), order)
    /\ op = JoinOp("new", NoTuple, FALSE, <<>>, FALSE, FALSE, FALSE)

AggNext == AOpen \/ ANext \/ ARewind \/ AClose

SpecAgg == AggInit /\ [][AggNext]_vars

-----------------------------------------------------------------------------
(* Properties of the Aggregate operator *)

\* The positions of the child tuples that belong to the group key.
GroupMembers(g, key) ==
    {i \in 1..Len(g.child.tuples) :
        GroupKey(g.groupby_fields, g.child.tuples[i]) = key}

\* The integer sum of the fields at attr of the child tuples at positions I.
RECURSIVE SumOver(_, _, _)
SumOver(g, I, attr) ==
    IF I = {} THEN 0
    ELSE LET i == CHOOSE x \in I : TRUE
         IN  get_field(g.child.tuples[i], attr)[2] + SumOver(g, I \ {i}, attr)

\* The value an aggregate column is to have for the group at positions I.
AggregateOf(g, I, af) ==
    LET vals == {get_field(g.child.tuples[i], af.field) : i \in I}
    IN  CASE af.op = "Count" -> IntField(Cardinality(I))
          [] af.op = "Sum" -> IntField(SumOver(g, I, af.field))
          [] af.op = "Min" -> CHOOSE m \in vals : \A v \in vals : FieldLe(m, v)
          [] af.op = "Max" -> CHOOSE m \in vals : \A v \in vals : FieldLe(v, m)
          [] af.op = "Avg" ->
                IntField(RustDiv(SumOver(g, I, af.field), Cardinality(I)))

\* The rows returned by next since the last open or rewind.
RowsOut ==
    LET somes == SelectSeq(op.out, LAMBDA o : o # NoTuple)
    IN  [i \in 1..Len(somes) |-> somes[i][1]]

\* The group key a row starts with.
RowKey(g, row) == SubSeq(row, 1, Len(g.groupby_fields))

\* C19: in every row an Aggregate returns, each aggregate column holds the
\* count, integer sum, least value, greatest value or truncated average of the
\* field over the tuples of the row's group, in whatever order the child
\* delivered them.
C19_AggregateValues ==
    (opiter.kind = "Aggregate") =>
        \A r \in 1..Len(RowsOut) :
           \A a \in 1..Len(opiter.agg_fields) :
              RowsOut[r][Len(opiter.groupby_fields) + a]
                 = AggregateOf(opiter, GroupMembers(opiter, RowKey(opiter, RowsOut[r])),
                               opiter.agg_fields[a])

\* A row with the average of three tuples of one group that did not arrive in
\* ascending order and whose sum is not a multiple of three.
C19_Witness ==
    /\ opiter.kind = "Aggregate"
    /\ op.name = "next"
    /\ op.ret # NoTuple
    /\ opiter.groupby_fields = <<0>>
    /\ opiter.agg_fields[1].op = "Avg"
    /\ Len(opiter.child.tuples) = 3
    /\ Len(opiter.tuples) = 1
    /\ get_field(opiter.child.tuples[1], 1) = IntField(4)
    /\ get_field(opiter.child.tuples[2], 1) = IntField(-3)
    /\ get_field(opiter.child.tuples[3], 1) = IntField(4)

\* The group keys occurring in the child's output.
ChildKeys(g) ==
    {GroupKey(g.groupby_fields, g.child.tuples[i]) : i \in 1..Len(g.child.tuples)}

\* A scan of a newly opened operator has returned None.
FreshScanComplete == op.fresh /\ op.name = "next" /\ op.ret = NoTuple

\* C20: a complete scan of an Aggregate returns exactly one row per distinct
\* group key of the child, each row being the key fields followed by one
\* column per aggregate in declared order; without group-by columns that is
\* one row for a non-empty child and no row for an empty child.
C20_OneRowPerGroup ==
    (opiter.kind = "Aggregate" /\ FreshScanComplete) =>
        /\ Len(RowsOut) = Cardinality(ChildKeys(opiter))
        /\ {RowKey(opiter, RowsOut[r]) : r \in 1..Len(RowsOut)} = ChildKeys(opiter)
        /\ \A r \in 1..Len(RowsOut) :
              /\ Len(RowsOut[r]) = Len(opiter.groupby_fields) + Len(opiter.agg_fields)
              /\ \A a \in 1..Len(opiter.agg_fields) :
                    RowsOut[r][Len(opiter.groupby_fields) + a]
                       = AggregateOf(opiter,
                                     GroupMembers(opiter, RowKey(opiter, RowsOut[r])),
                                     opiter.agg_fields[a])
        /\ opiter.groupby_fields = <<>> =>
              Len(RowsOut) = IF opiter.child.tuples = <<>> THEN 0 ELSE 1

\* A complete scan that returned two rows of two aggregate columns each.
C20_Witness ==
    /\ opiter.kind = "Aggregate"
    /\ FreshScanComplete
    /\ opiter.groupby_fields = <<0>>
    /\ Len(opiter.agg_fields) = 2
    /\ Len(RowsOut) = 2

-----------------------------------------------------------------------------
(* SpecAggErr: an Aggregate whose Sum or Avg column is the string column of
   the child. *)

NonIntegerChoices == {<<AggregateField(2, "Sum")>>, <<AggregateField(2, "Avg")>>}

\* merge aborted while the child was drained: Aggregate::new did not return.
NewPanicked(g) ==
    \E key \in DOMAIN g.agg.group_aggs :
       \E i \in 1..Len(g.agg_fields) : g.agg.group_aggs[key][i] = PanicField

AggErrInit ==
    /\ written = EmptyFcn
    /\ inserted = <<>>
    /\ page = Page_new(0)
    /\ steps = 0
    /\ overflow_checks = FALSE
    /\ disk = EmptyFcn
    /\ sidecar = <<NONE>>
    /\ c_map = EmptyFcn
    /\ issued = EmptyFcn
    /\ iter = NoIter
    /\ th = NoThreads
    /\ \E groupby_fields \in GroupByChoices, agg_fields \in NonIntegerChoices,
          tuples \in SeqsUpTo(AggTuples, MaxChild) :
          \E order \in IterationOrders(groupby_fields, agg_fields, tuples) :
             opiter = Aggregate_new(groupby_fields, agg_fields,
                                    TupleIterator_new(tuples), order)
    /\ op = JoinOp("new", NoTuple, NewPanicked(opiter), <<>>, FALSE, FALSE, FALSE)

SpecAggErr == AggErrInit /\ [][AggNext]_vars

\* An aggregate column of g with operator Sum or Avg reads a string field of
\* some child tuple.
NonIntegerAggregated(g) ==
    \E a \in 1..Len(g.agg_fields) :
       /\ g.agg_fields[a].op \in {"Sum", "Avg"}
       /\ \E i \in 1..Len(g.child.tuples) :
             get_field(g.child.tuples[i], g.agg_fields[a].field)[1] = 1

\* C21: an Aggregate whose Sum or Avg column meets a string field has panicked
\* while aggregating; it never holds or returns an output value.
C21_NonIntegerPanics ==
    (opiter.kind = "Aggregate" /\ NonIntegerAggregated(opiter)) => op.panic

\* The position in the child's output of the first tuple of the group key.
FirstPosition(g, key) ==
    CHOOSE i \in GroupMembers(g, key) : \A k \in GroupMembers(g, key) : i <= k

\* C22: the rows returned by successive next calls are ordered by the position
\* of the first tuple of their group in the child's output.
C22_InsertionOrderedRows ==
    (opiter.kind = "Aggregate" /\ op.fresh) =>
        \A r1, r2 \in 1..Len(RowsOut) :
           r1 < r2 =>
              FirstPosition(opiter, RowKey(opiter, RowsOut[r1]))
                 < FirstPosition(opiter, RowKey(opiter, RowsOut[r2]))

\* What the i-th next call on an Aggregate returns when it starts at the first
\* cached tuple.
CachedAt(g, i) == IF i <= Len(g.tuples) THEN Some(g.tuples[i]) ELSE NoTuple

\* C23: rewind on an open Aggregate succeeds, and after a rewind, and after a
\* close followed by open, the next calls return the cached result from its
\* first tuple, then None.
C23_AggregateRewinds ==
    (opiter.kind = "Aggregate") =>
        /\ (op.name = "rewind" /\ opiter.open) => ~op.panic
        /\ ((op.rewound \/ op.reopened) /\ ~op.panic) =>
              \A i \in 1..Len(op.out) : op.out[i] = CachedAt(opiter, i)

-----------------------------------------------------------------------------
(* SpecOps: the operator protocol (open, next, rewind, close) on any of the
   three operators, over in-memory children. *)

OpsPredicates == {"Equals", "LessThan"}

OpsAggFields ==
    {<<AggregateField(1, "Count")>>,
     <<AggregateField(2, "Max"), AggregateField(1, "Sum")>>}

OpsInit ==
    /\ written = EmptyFcn
    /\ inserted = <<>>
    /\ page = Page_new(0)
    /\ steps = 0
    /\ overflow_checks = FALSE
    /\ disk = EmptyFcn
    /\ sidecar = <<NONE>>
    /\ c_map = EmptyFcn
    /\ issued = EmptyFcn
    /\ iter = NoIter
    /\ th = NoThreads
    /\ \/ \E o \in OpsPredicates, l \in SeqsUpTo(LeftTuples, MaxLeft),
             r \in SeqsUpTo(RightTuples, MaxRight) :
             \/ opiter = Join_new(o, 0, 0, TupleIterator_new(l), TupleIterator_new(r))
             \/ /\ o = "Equals"
                /\ opiter = HashEqJoin_new(o, 0, 0, TupleIterator_new(l),
                                           TupleIterator_new(r))
       \/ \E groupby_fields \in GroupByChoices, agg_fields \in OpsAggFields,
             tuples \in SeqsUpTo(AggTuples, MaxChild) :
             \E order \in IterationOrders(groupby_fields, agg_fields, tuples) :
                opiter = Aggregate_new(groupby_fields, agg_fields,
                                       TupleIterator_new(tuples), order)
    /\ op = JoinOp("new", NoTuple, FALSE, <<>>, FALSE, FALSE, FALSE)

OpsNext ==
    \/ opiter.kind \in {"Join", "HashEqJoin"} /\ JoinNext
    \/ opiter.kind = "Aggregate" /\ AggNext

SpecOps == OpsInit /\ [][OpsNext]_vars

\* C24: next on an operator that is not open panics: it returns no tuple and
\* leaves the operator as it was.
C24_NextNotOpenFatal ==
    [][(op'.name = "next" /\ ~opiter.open) =>
          (op'.panic /\ op'.ret = NoTuple /\ opiter' = opiter)]_vars

\* next on an Aggregate that was opened and closed again has panicked.
C24_Witness ==
    /\ opiter.kind = "Aggregate"
    /\ op.name = "next"
    /\ op.panic
    /\ steps = 3

C26_OpenIsNoOp ==
    [][(op'.name = "open" /\ opiter.open) => opiter' = opiter]_vars

\* open has been called on a nested-loop join in the middle of a scan.
C26_Witness ==
    /\ opiter.kind = "Join"
    /\ op.name = "open"
    /\ opiter.out_tup # NoTuple
    /\ Len(op.out) = 2
    /\ op.out[2] # NoTuple

-----------------------------------------------------------------------------
(* Further properties of the page *)

\* The sum of the lengths of the values in the slots S of page p.
RECURSIVE LengthSum(_, _)
LengthSum(p, S) ==
    IF S = {} THEN 0
    ELSE LET s == CHOOSE x \in S : TRUE
         IN  p.slot_map[s][2] + LengthSum(p, S \ {s})

\* C27: in every page state reached by add_value and delete_value calls,
\* get_free_space() + get_header_size() + the lengths of the live values is
\* PAGE_SIZE.
C27_SpaceAccounting ==
    (op.ret # PANIC /\ op.name # "serde") =>
        /\ ~get_free_space(page, overflow_checks).panic
        /\ get_free_space(page, overflow_checks).v + get_header_size(page)
              + LengthSum(page, LiveSlots(page)) = PAGE_SIZE

\* C28: into_iter yields the live slots of the page, each once, in ascending
\* slot-id order and without the tombstoned slots, each as the bytes the page
\* holds for the slot paired with the slot id; this holds after inserts,
\* deletes and serialize/deserialize cycles.
C28_IterationLiveAscending ==
    op.ret # PANIC =>
        LET keys == SortedKeys(LiveSlots(page))
        IN  /\ \A s \in LiveSlots(page) : get_value(page, s, overflow_checks).ret = 0
            /\ into_iter(page, overflow_checks)
                  = [i \in 1..Len(keys) |->
                        <<get_value(page, keys[i], overflow_checks).bytes, keys[i]>>]

\* A bulk-loaded page with tombstoned slot 1 between live slots 0 and 2 has
\* gone through a serialize/deserialize cycle.
C28_Witness ==
    /\ op.name = "serde"
    /\ op.ret = 0
    /\ 1 \in Tombstones(page)
    /\ {0, 2} \subseteq LiveSlots(page)
    /\ Len(into_iter(page, overflow_checks)) = Cardinality(DOMAIN page.slot_map) - 1

\* C29: get_header_size() is at most 8 bytes plus 6 bytes per entry of the
\* slot directory.
C29_HeaderSizeBound ==
    get_header_size(page) <= 8 + 6 * Cardinality(DOMAIN page.slot_map)

\* The page is filled with one-byte values and the next slot id takes two
\* bytes to encode.
C29_Witness ==
    /\ op.ret # PANIC
    /\ Cardinality(DOMAIN page.slot_map) = 24
    /\ page.open_slot = 24
    /\ get_header_size(page) = 6 + 6 * 24

\* C30: no byte of a live value lies in the first 7 + 6 * N bytes of the page,
\* the region to_bytes fills with the header of a page with N directory
\* entries.
C30_PayloadOutsideHeader ==
    op.ret # PANIC =>
        \A s \in LiveSlots(page) :
           page.slot_map[s][1] - page.slot_map[s][2] + 1
              >= 7 + 6 * Cardinality(DOMAIN page.slot_map)

\* C31: add_value, get_value, delete_value, get_free_space, get_header_size
\* and to_bytes never fail: the last call returned, and in the state it left
\* get_free_space, to_bytes and get_value of every slot id return as well.
C31_PageOperationsTotal ==
    /\ op.ret # PANIC
    /\ ~get_free_space(page, overflow_checks).panic
    /\ ~to_bytes(page).panic
    /\ \A s \in SlotArgs(page) : get_value(page, s, overflow_checks).ret # PANIC

\* C32: an add_value that reuses a tombstoned slot id and whose length equals
\* the free space before the call succeeds and returns that slot id.
C32_ReuseNotCharged ==
    [][(/\ op'.name = "add"
        /\ page.open_slot \in Tombstones(page)
        /\ ~get_free_space(page, overflow_checks).panic
        /\ Len(op'.bytes) > 0
        /\ Len(op'.bytes) = get_free_space(page, overflow_checks).v)
       => op'.ret = page.open_slot]_vars

\* the bytes of the page the directory entry of slot s describes
PayloadRange(p, s) == (p.slot_map[s][1] - p.slot_map[s][2] + 1)..p.slot_map[s][1]

\* C33: the ranges the live directory entries describe are pairwise disjoint
\* and together are exactly the top s_space bytes of the page, s_space being
\* the sum of the live lengths.
C33_PayloadsContiguous ==
    /\ page.s_space = LengthSum(page, LiveSlots(page))
    /\ \A s, t \in LiveSlots(page) :
          s # t => PayloadRange(page, s) \cap PayloadRange(page, t) = {}
    /\ UNION {PayloadRange(page, s) : s \in LiveSlots(page)}
          = (PAGE_SIZE - page.s_space)..(PAGE_SIZE - 1)

\* A delete_value has returned and a value inserted after the deleted one,
\* which lay below it in the body, is still live.
C33_Witness ==
    /\ op.name = "delete"
    /\ op.ret = 0
    /\ \E s \in LiveSlots(page) : s > op.slot
    /\ \E s \in LiveSlots(page) : s < op.slot

\* C34: get_header_size() is exactly 8 bytes plus 6 bytes per directory entry.
C34_HeaderSizeExact ==
    get_header_size(page) = 8 + 6 * Cardinality(DOMAIN page.slot_map)

-----------------------------------------------------------------------------
(* Further properties of the heap file *)

\* the positions of the file whose page image carries the logical id pid
PositionsOf(file, pid) == {i \in 1..Len(file) : from_bytes(file[i]).p_id = pid}

\* C35: a write_page_to_file of a page whose logical id is in the file
\* replaces that page where it is and keeps num_pages; a write of a new id
\* appends the page and adds one to num_pages; after every step no two pages
\* of the file carry the same logical id and the file holds num_pages pages.
C35_WriteInPlaceOrAppend ==
    [][/\ op'.name = "write" =>
            LET file == disk[ConcContainer]
                file2 == disk'[ConcContainer]
                hits == PositionsOf(file, page.p_id)
            IN  /\ op'.ret = 0
                /\ IF hits # {}
                   THEN /\ c_map'[ConcContainer].pg_cnt = c_map[ConcContainer].pg_cnt
                        /\ file2 = [i \in 1..Len(file) |->
                                      IF i \in hits THEN to_bytes(page).bytes ELSE file[i]]
                   ELSE /\ c_map'[ConcContainer].pg_cnt = c_map[ConcContainer].pg_cnt + 1
                        /\ file2 = Append(file, to_bytes(page).bytes)
       /\ \A pid \in HFPageIds \cup {2} :
             Cardinality(PositionsOf(disk'[ConcContainer], pid)) <= 1
       /\ Len(disk'[ConcContainer]) = c_map'[ConcContainer].pg_cnt
      ]_vars

\* The second of two pages of the file was written again, now holding a value.
C35_Witness ==
    /\ op.name = "write" /\ op.ret = 0
    /\ Len(disk[ConcContainer]) = 2
    /\ c_map[ConcContainer].pg_cnt = 2
    /\ page.slot_map # EmptyMap
    /\ from_bytes(disk[ConcContainer][2]).p_id = page.p_id
    /\ disk[ConcContainer][2] = to_bytes(page).bytes

-----------------------------------------------------------------------------
(* Further properties of the storage manager *)

\* the pages of container c, as stored, whose add_value accepts value
Accepting(dk, cm, c, value, oc) ==
    {p \in 0..(cm[c].pg_cnt - 1) :
        /\ sm_get_page(dk, cm, c, p).ok
        /\ add_value(sm_get_page(dk, cm, c, p).page, value, oc).ret >= 0}

\* C36: an insert_value that returns has put the value on the lowest page
\* that accepts it, in the slot add_value gives it there, without adding a
\* page; when no page of the container accepts it, the value id names page N,
\* N the number of pages before the call, and the container has N + 1 pages.
\* After every insert, delete and update the container's pages carry the ids
\* 0..num_pages-1, each once.
C36_FirstFitPlacement ==
    [][/\ (op'.name \in {"insert", "update"} /\ op'.ret = 0) =>
            LET N == c_map[ConcContainer].pg_cnt
                acc == Accepting(disk, c_map, ConcContainer, op'.bytes, overflow_checks)
                id == op'.slot
            IN  /\ id[1] = ConcContainer
                /\ IF acc # {}
                   THEN /\ id[2] = Min(acc)
                        /\ id[3] = add_value(sm_get_page(disk, c_map, ConcContainer,
                                                         Min(acc)).page,
                                             op'.bytes, overflow_checks).ret
                        /\ c_map'[ConcContainer].pg_cnt = N
                   ELSE /\ id[2] = N
                        /\ c_map'[ConcContainer].pg_cnt = N + 1
       /\ Len(disk'[ConcContainer]) = c_map'[ConcContainer].pg_cnt
       /\ \A p \in 0..(c_map'[ConcContainer].pg_cnt - 1) :
             Cardinality(PositionsOf(disk'[ConcContainer], p)) = 1
      ]_vars

\* A value went to page 0 of a container of two pages, after the values
\* already there.
C36_Witness ==
    /\ op.name \in {"insert", "update"}
    /\ op.ret = 0
    /\ op.slot[2] = 0
    /\ op.slot[3] > 0
    /\ c_map[ConcContainer].pg_cnt = 2

-----------------------------------------------------------------------------
(* The concurrent heap file specification: two threads call                *)
(* read_page_from_file and write_page_to_file on the HeapFile of           *)
(* ConcContainer.  A call takes the write lock of the file, scans the      *)
(* pages, and a write then stores the page image in two parts (write_all   *)
(* is not atomic for a reader of the file); the lock is dropped on return. *)

\* the program points at which a thread holds the lock of the file
HeldPcs == {"locked", "found", "half"}

\* mutant: a shared lock, which any number of threads may hold
lock_read(t) == t \in Threads

\* self.lock.write().unwrap() can return in thread t
lock_write(t) == \A u \in Threads \ {t} : th[u].pc \notin HeldPcs

HCPageIds == {0, 1}

\* the pages handed to write_page_to_file: empty ones and ones holding a value
HCPages ==
    {Page_new(pid) : pid \in HCPageIds}
        \cup {add_value(Page_new(pid), Val(1, 17), FALSE).page : pid \in HCPageIds}

HCIdleThread ==
    [pc |-> "idle", kind |-> "none", pid |-> 0, img |-> <<>>, pos |-> 0, ret |-> NONE,
     conc |-> FALSE]

\* the image at a position of which only the first part was stored so far
Torn(old, new) ==
    [k \in 0..(PAGE_SIZE - 1) |-> IF k < PAGE_SIZE \div 2 THEN new[k] ELSE old[k]]

HCIdle == UNCHANGED <<page, overflow_checks, sidecar, issued, iter, inserted, opiter>>

\* thread t calls read_page_from_file(pid) or write_page_to_file(p); calls
\* that overlap in time are marked in conc
HCStart(t) ==
    /\ th[t].pc = "idle"
    /\ steps < MaxHCOps
    /\ \E call \in {[kind |-> "read", pid |-> pid, img |-> <<>>] : pid \in HCPageIds}
                     \cup {[kind |-> "write", pid |-> p.p_id, img |-> to_bytes(p).bytes] :
                              p \in HCPages} :
          th' = [u \in Threads |->
                    IF u = t
                    THEN [pc |-> "wait", kind |-> call.kind, pid |-> call.pid,
                          img |-> call.img, pos |-> 0, ret |-> NONE,
                          conc |-> \E v \in Threads \ {t} : th[v].pc # "idle"]
                    ELSE IF th[u].pc # "idle" THEN [th[u] EXCEPT !.conc = TRUE]
                    ELSE th[u]]
    /\ steps' = steps + 1
    /\ UNCHANGED <<disk, c_map, written, op>>
    /\ HCIdle

HCLock(t) ==
    /\ th[t].pc = "wait"
    /\ lock_write(t)
    /\ th' = [th EXCEPT ![t].pc = "locked"]
    /\ UNCHANGED <<disk, c_map, written, op, steps>>
    /\ HCIdle

\* the scan of read_page_from_file, up to its return
HCReadScan(t) ==
    /\ th[t].pc = "locked"
    /\ th[t].kind = "read"
    /\ \E r \in {read_page_from_file(c_map[ConcContainer], disk[ConcContainer], th[t].pid)} :
          /\ th' = [th EXCEPT ![t].pc = "idle",
                              ![t].ret = IF r.ok THEN 0 ELSE ERR,
                              ![t].img = IF r.ok THEN r.page ELSE <<>>]
          /\ op' = SMOp("read", <<ConcContainer, th[t].pid, t>>, <<>>,
                        IF r.ok THEN 0 ELSE ERR)
    /\ UNCHANGED <<disk, c_map, written, steps>>
    /\ HCIdle

\* the scan of write_page_to_file: pos is the position found, 0 for none
HCWriteScan(t) ==
    /\ th[t].pc = "locked"
    /\ th[t].kind = "write"
    /\ \E hits \in {Matches(c_map[ConcContainer], disk[ConcContainer], th[t].pid)} :
          th' = [th EXCEPT ![t].pc = "found",
                           ![t].pos = IF hits = {} THEN 0 ELSE Min(hits)]
    /\ UNCHANGED <<disk, c_map, written, op, steps>>
    /\ HCIdle

\* write_all, first part: at the position found, or at the end of the file
HCWriteHead(t) ==
    /\ th[t].pc = "found"
    /\ \E file \in {disk[ConcContainer]} :
          IF th[t].pos = 0
          THEN /\ disk' = [disk EXCEPT ![ConcContainer] =
                              Append(file, Torn(Page_new(0).data, th[t].img))]
               /\ th' = [th EXCEPT ![t].pc = "half", ![t].pos = Len(file) + 1]
          ELSE /\ disk' = [disk EXCEPT ![ConcContainer] =
                              [file EXCEPT ![th[t].pos] = Torn(@, th[t].img)]]
               /\ th' = [th EXCEPT ![t].pc = "half"]
    /\ UNCHANGED <<c_map, written, op, steps>>
    /\ HCIdle

\* write_all, second part, the page count of an appended page, and the return
HCWriteTail(t) ==
    /\ th[t].pc = "half"
    /\ disk' = [disk EXCEPT ![ConcContainer] = [@ EXCEPT ![th[t].pos] = th[t].img]]
    /\ c_map' = [c_map EXCEPT ![ConcContainer].pg_cnt =
                    IF th[t].pos > c_map[ConcContainer].pg_cnt THEN @ + 1 ELSE @]
    /\ th' = [th EXCEPT ![t].pc = "idle", ![t].ret = 0]
    /\ written' = MapInsert(written, th[t].pid, th[t].img)
    /\ op' = SMOp("write", <<ConcContainer, th[t].pid, t>>, <<>>, 0)
    /\ UNCHANGED steps
    /\ HCIdle

HCInit ==
    /\ opiter = NoOperator
    /\ written = EmptyFcn
    /\ inserted = <<>>
    /\ page = Page_new(0)
    /\ op = NoOp
    /\ steps = 0
    /\ overflow_checks = FALSE
    /\ LET r == create_container(EmptyFcn, EmptyFcn, ConcContainer)
       IN  disk = r.disk /\ c_map = r.c_map
    /\ sidecar = <<NONE>>
    /\ issued = EmptyFcn
    /\ iter = NoIter
    /\ th = [t \in Threads |-> HCIdleThread]

HCNext ==
    \/ \E t \in Threads : HCStart(t)
    \/ \E t \in Threads : HCLock(t)
    \/ \E t \in Threads : HCReadScan(t)
    \/ \E t \in Threads : HCWriteScan(t)
    \/ \E t \in Threads : HCWriteHead(t)
    \/ \E t \in Threads : HCWriteTail(t)

SpecHFC == HCInit /\ [][HCNext]_vars

\* C37: the calls take effect one at a time, in the order in which they hold
\* the lock.  A read returns the page of the last write of that id that has
\* returned, whole, and an error when there was none; whenever no call is
\* running the file holds one page for every id written, the page of the
\* last write of that id, and num_pages is the number of ids written.
C37_CallsSerialize ==
    [][/\ \A t \in Threads :
             (th[t].pc = "locked" /\ th[t].kind = "read" /\ th'[t].pc = "idle") =>
                /\ th'[t].ret = 0 <=> th[t].pid \in DOMAIN written
                /\ th'[t].ret = 0 => to_bytes(th'[t].img).bytes = written[th[t].pid]
       /\ (\A t \in Threads : th'[t].pc = "idle") =>
             /\ c_map'[ConcContainer].pg_cnt = Cardinality(DOMAIN written')
             /\ Len(disk'[ConcContainer]) = Cardinality(DOMAIN written')
             /\ \A pid \in DOMAIN written' :
                   \E i \in 1..Len(disk'[ConcContainer]) :
                      /\ PositionsOf(disk'[ConcContainer], pid) = {i}
                      /\ disk'[ConcContainer][i] = written'[pid]
      ]_vars

\* Two write calls of new page ids that overlapped in time have both returned.
C37_Witness ==
    /\ \A t \in Threads :
          th[t].pc = "idle" /\ th[t].kind = "write" /\ th[t].ret = 0 /\ th[t].conc
    /\ th[1].pid # th[2].pid
    /\ c_map[ConcContainer].pg_cnt = 2
    /\ steps = 2

\* Two write calls of the same new page id that overlapped in time have both
\* returned and the file holds one page.
C37_WitnessSameId ==
    /\ \A t \in Threads :
          th[t].pc = "idle" /\ th[t].kind = "write" /\ th[t].ret = 0 /\ th[t].conc
    /\ th[1].pid = th[2].pid
    /\ c_map[ConcContainer].pg_cnt = 1
    /\ steps = 2

-----------------------------------------------------------------------------
(* The scan specification: a container is built by insert_value and        *)
(* delete_value calls; then an iterator is taken and next() is called      *)
(* again and again, also after it returned None, while nothing else        *)
(* touches the container.                                                  *)

ScanSetup == ~iter.active /\ steps < MaxScanSetup

ScanInsertValue == ScanSetup /\ SMInsertValue

ScanDeleteValue == ScanSetup /\ SMDeleteValue

\* one call of next(), whatever the earlier calls returned
ScanIterNext ==
    /\ op.ret # PANIC
    /\ iter.active
    /\ Len(iter.out) < MaxYield
    /\ \E r \in {hfi_next(disk, c_map[iter.cid], iter.curr_pid, iter.curr_record_idx,
                          overflow_checks)} :
          /\ iter' = [iter EXCEPT !.curr_pid = r.curr_pid,
                                  !.curr_record_idx = r.curr_record_idx,
                                  !.out = IF r.item = <<>> THEN @ ELSE Append(@, r.item),
                                  !.done = ~r.panic /\ r.item = <<>>]
          /\ op' = SMOp("next", IF r.item = <<>> THEN <<NONE, NONE, NONE>> ELSE r.item[2],
                        IF r.item = <<>> THEN <<>> ELSE r.item[1],
                        IF r.panic THEN PANIC ELSE 0)
    /\ UNCHANGED <<steps, disk, sidecar, c_map, issued>>
    /\ PageIdle

ScanInit ==
    /\ opiter = NoOperator
    /\ written = EmptyFcn
    /\ inserted = <<>>
    /\ page = Page_new(0)
    /\ op = NoOp
    /\ steps = 0
    /\ overflow_checks \in BOOLEAN
    /\ LET r == create_container(EmptyFcn, EmptyFcn, ConcContainer)
       IN  disk = r.disk /\ c_map = r.c_map
    /\ sidecar = <<NONE>>
    /\ issued = EmptyFcn
    /\ iter = NoIter
    /\ th = NoThreads

ScanNext ==
    \/ ScanInsertValue
    \/ ScanDeleteValue
    \/ SMGetIterator
    \/ ScanIterNext

\* a next() call would change the state: the scan has not returned None yet
ScanPending == op.ret # PANIC /\ iter.active /\ ~iter.done /\ Len(iter.out) < MaxYield

\* ScanPending is ENABLED <<ScanIterNext>>_vars: a call in a ScanPending state
\* yields (out grows), returns None (done is set) or aborts (op.ret changes),
\* and every step of ScanIterNext that changes the state starts in one
ScanPendingIsEnabled == [][ScanIterNext => ScanPending]_vars

\* the caller keeps calling next(): WF_vars(ScanIterNext), with the enabling
\* condition written out as ScanPending
ScanFair == []<>(~ScanPending) \/ []<><<ScanIterNext>>_vars

SpecScan == ScanInit /\ [][ScanNext]_vars /\ ScanFair

\* next() on the iterator as it is now
NextNow ==
    hfi_next(disk, c_map[iter.cid], iter.curr_pid, iter.curr_record_idx, overflow_checks)

\* C38: a scan of a container nobody writes to reaches a next() call that
\* returns None, having yielded at most one item per live value, and from
\* then on every next() call returns None and leaves the iterator as it is.
C38_ScanTerminates ==
    /\ iter.active ~> iter.done
    /\ [](iter.active => Len(iter.out) <= Cardinality(LiveIds(iter.cid)))
    /\ [](iter.done =>
            /\ ~NextNow.panic
            /\ NextNow.item = <<>>
            /\ NextNow.curr_pid = iter.curr_pid
            /\ NextNow.curr_record_idx = iter.curr_record_idx)

\* A scan over two pages returned None after it yielded three values.
C38_Witness ==
    /\ iter.active /\ iter.done
    /\ op.name = "next" /\ op.ret = 0
    /\ Len(iter.out) = 3
    /\ iter.curr_pid = 2

-----------------------------------------------------------------------------
(* Further properties of the slot directory *)

\* C39: the slot ids in the directory, live or tombstoned, are 0..N-1 for a
\* directory of N entries.
C39_DenseSlotIds ==
    DOMAIN page.slot_map = 0..(Cardinality(DOMAIN page.slot_map) - 1)

\* A tombstoned slot id was given out again while a later slot is tombstoned
\* and others are live.
C39_Witness ==
    /\ op.name = "add"
    /\ op.ret = 0
    /\ Tombstones(page) # {}
    /\ Cardinality(LiveSlots(page)) > 1

-----------------------------------------------------------------------------
(* Scans with insert_value and delete_value calls between the next() calls *)

\* C40: when a scan has returned None, every value that was stored when the
\* iterator was taken and has not been deleted since was yielded exactly
\* once, whatever insert_value and delete_value calls ran between the next()
\* calls.
C40_ScanUnderWrites ==
    (iter.active /\ iter.done /\ op.ret # PANIC /\ iter.cid \in DOMAIN c_map) =>
        \A id \in iter.stable :
            Cardinality({k \in 1..Len(iter.out) : iter.out[k][2] = id}) = 1

====
